---- MODULE Spec2Model ----
(***************************************************************************)
(* Model of the delay subsystem of kk_controller                           *)
(* (src/utils/delays/delays.py).                                           *)
(*                                                                         *)
(* TimeDelay wraps threading.Timer objects.  Its methods take no lock, so  *)
(* the methods called on caller threads and the expiry handler             *)
(* (_internal_callback, which runs on the thread of the Timer that fired)  *)
(* interleave between source lines.  Every thread therefore has a program  *)
(* counter named after the source line it is about to execute (L169 is     *)
(* delays.py line 169) and a stack of return labels.  One step executes    *)
(* one source line.                                                        *)
(*                                                                         *)
(* The specifications share the actions:                                   *)
(*   Spec        the threads interleave freely between source lines, which *)
(*               is what the code allows;                                  *)
(*   SpecSerial  every method call and every expiry handler runs to its    *)
(*               end before another thread takes a step, which is how one  *)
(*               caller thread that never overlaps an expiry (the tests)   *)
(*               sees the object;                                          *)
(*   SpecAny     serial runs of a TimeDelay built with any timeout;        *)
(*   SpecBuild   serial runs of a TimeDelay, its n_shots argument recorded;*)
(*   SpecKinds   serial runs of a TimeDelay or of a StatisticsDelay, whose *)
(*               timer is a TimeDelay that calls _timer_task;              *)
(*   SpecRun     the loop of the sweep driver (src/main.py);               *)
(*   SpecRead    serial runs of a StatisticsDelay whose read_value raises; *)
(*   SpecThreads a StatisticsDelay whose threads interleave freely;        *)
(*   SpecThreshold  serial runs of a ThresholdDelay;                       *)
(*   SpecMetric  calls of compute_metric and check_match on a window;      *)
(*   SpecFactory calls of the DelayFactory registry.                       *)
(*                                                                         *)
(* The clock is an integer; time.time() returns `now`.                     *)
(***************************************************************************)
EXTENDS Integers, Sequences, FiniteSets, TLC

\* ------------------------------------------------------------------ bounds
NumCallers == 1     \* caller threads
MaxTimers == 3      \* threading.Timer objects ever constructed
MaxOps == 3         \* method calls issued when the threads interleave freely
MaxOpsSerial == 5   \* method calls issued in a serial run
MaxOpsStat == 3     \* method calls issued on a StatisticsDelay or ThresholdDelay
MaxOpsThreads == 3  \* method calls issued on a StatisticsDelay whose threads
                    \* interleave freely
MaxTicksThreads == 1  \* alarms of such a StatisticsDelay that expire
MaxShots == 2       \* largest n_shots argument
MaxTimeout == 2     \* largest timeout argument
MaxTime == 3        \* the clock runs freely up to this value in a serial run
WindowLength == 2   \* capacity of the window (LimitedList(120) in the source)
MaxSample == 1      \* read_value() returns a number in 0..MaxSample
MaxRef == 1         \* largest reference_value argument
MaxValue == 2       \* largest number passed to my_statistics directly
MaxListLen == 3     \* capacity of the list passed to my_statistics directly
MaxRegs == 2        \* register_delay calls after the package import
MaxParams == 2      \* distinct keyword-argument sets passed to create_delay
MaxEdits == 1       \* changes the holder makes to a list available_delays returned

Epoch == 1          \* first clock value; time.time() is never 0
None == 0 - 1       \* Python's None in startedTime / pausedTime

VARIABLES
    timeout,          \* self.timeout
    n_shots,          \* self.n_shots
    callback,         \* TRUE iff self.callback is a function (not None)
    remaining_shots,  \* self.remaining_shots
    state,            \* self.state, a DelayState
    startedTime,      \* self.startedTime
    pausedTime,       \* self.pausedTime
    timer,            \* self.timer: the id of the Timer object it refers to
    timers,           \* the Timer objects, by id
    nTimers,          \* number of Timer objects constructed so far
    now,              \* the clock
    pc,               \* thread -> source line it executes next
    stack,            \* thread -> return labels of the calls it is inside
    serial,           \* TRUE iff calls and handlers run one at a time
    cbCount,          \* history: user callback invocations since the last reset()
    ranInShot,        \* history: clock time spent started in the current shot,
                      \*          up to the last pause()
    nOps,             \* history: method calls issued by the caller threads
    alone,            \* history: the calls so far are at most one start()
    raised,           \* history: exceptions raised so far
    lastOp,           \* history: the method the callers called last
    stateAtCall,      \* history: self.state when that call was issued
    pendingAtCall,    \* history: an alarm was pending when it was issued
    startedFor,       \* history: clock time a StatisticsDelay has spent started
                      \*          since start() took it from initiated
    wasReset,         \* history: the callers have called reset()
    fired,            \* history: the alarms that have expired, counted for a
                      \*          StatisticsDelay whose threads interleave freely
    kind,             \* the class of the delay the callers hold (a DelayType)
    reference_value,  \* StatisticsDelay: self.reference_value
    metric,           \* StatisticsDelay: self.metric
    comparator,       \* StatisticsDelay: self.comparator
    scallback,        \* StatisticsDelay: TRUE iff self.callback is a function
    sstate,           \* StatisticsDelay: self.state
    values,           \* StatisticsDelay: self.values (none: it is None)
    started_time,     \* StatisticsDelay: self.started_time
    elapsed_time,     \* StatisticsDelay: self.elapsed_time
    values_lock,      \* StatisticsDelay: the thread that holds
                      \*          self._values_lock, 0 when it is free
    read_value,       \* StatisticsDelay: "returns" when self.read_value always
                      \*          returns a number, "raises" when a call may raise
    reads,            \* history: the samples read since self.values was
                      \*          allocated; None stands for a read that raised
    sCalls,           \* history: StatisticsDelay callback invocations since
                      \*          the last reset()
    threshold,        \* ThresholdDelay: its threshold
    mode,             \* ThresholdDelay: its mode, "above" or "below"
    shotsArg,         \* history: the n_shots argument the TimeDelay was built
                      \*          with, where it is recorded
    argValues,        \* my_statistics: the list passed as `values`
    argMetric,        \* my_statistics: the `metric` argument
    argComparator,    \* my_statistics: the `comparator` argument
    argReference,     \* my_statistics: the `reference_value` argument
    appended,         \* history: the item appended to that list last
    computed_metric,  \* my_statistics: what compute_metric returned
    trigger,          \* my_statistics: what check_match returned
    step,             \* my_statistics: which of the two calls has returned
    registry,         \* DelayFactory._registry: its items, in insertion order
    log,              \* history: the register_delay calls since the import
    listing,          \* the object available_delays() returned last
    expected,         \* history: the keys registered when it was returned,
                      \*          with the changes its holder made to it
    created           \* the outcome of the last create_delay call

\* The variables of a direct use of my_statistics.
metricVars == <<argValues, argMetric, argComparator, argReference, appended,
                computed_metric, trigger, step>>
\* The variables of DelayFactory and of its callers.
factoryVars == <<registry, log, listing, expected, created>>
\* What no step of a delay changes: its configuration, and the state of the
\* other components.
cfgVars == <<timeout, n_shots, callback, serial,
             kind, reference_value, metric, comparator, scallback, read_value,
             threshold, mode, shotsArg, metricVars, factoryVars>>
statVars == <<sstate, values, started_time, elapsed_time, values_lock, reads, sCalls>>
objVars == <<remaining_shots, state, startedTime, pausedTime, timer>>
callVars == <<lastOp, stateAtCall, pendingAtCall, startedFor, wasReset, fired>>
histVars == <<cbCount, ranInShot, nOps, alone, raised, callVars>>
vars == <<timeout, n_shots, callback, serial, remaining_shots, state, startedTime,
          pausedTime, timer, timers, nTimers, now, pc, stack,
          cbCount, ranInShot, nOps, alone, raised,
          lastOp, stateAtCall, pendingAtCall, startedFor, wasReset, fired,
          kind, reference_value, metric, comparator, scallback, read_value,
          threshold, mode, shotsArg,
          sstate, values, started_time, elapsed_time, values_lock, reads, sCalls,
          metricVars, factoryVars>>

\* ------------------------------------------------------------ vocabulary
INITIATED == "initiated"
STARTED == "started"
PAUSED == "paused"
DONE == "done"
CONTINUE == "continue"
DelayState == {INITIATED, STARTED, PAUSED, DONE}

\* DelayType, lines 11-14.
TIME == "TimeDelay"
STATISTICS == "StatisticsDelay"
\* The class the tests import besides these two.
THRESHOLD == "ThresholdDelay"

Callers == 1..NumCallers
TimerIds == 1..MaxTimers
\* The thread of Timer k is thread NumCallers + k.
Threads == 1..(NumCallers + MaxTimers)
IsCaller(p) == p <= NumCallers
TimerOf(p) == p - NumCallers
ThreadOf(k) == NumCallers + k

\* A Timer object: st is "unborn" (not constructed), "new" (constructed, thread
\* not started), "armed" (thread waiting for the interval), "running" (the
\* function is executing) or "dead" (thread ended, or cancelled while waiting).
\* cancelled is the Timer's `finished` event, set by cancel().
NoTimer == [st |-> "unborn", iv |-> 0, dl |-> 0, cancelled |-> FALSE]
DeadTimer == [st |-> "dead", iv |-> 0, dl |-> 0, cancelled |-> TRUE]
NewTimer(iv) == [st |-> "new", iv |-> iv, dl |-> 0, cancelled |-> FALSE]

\* Timer.is_alive(): the thread was started and has not ended.
IsAlive(k) == timers[k].st \in {"armed", "running"}

\* Timer.cancel(): sets the finished event.  A waiting Timer wakes up and ends
\* without calling its function; a running one is not affected.
Cancel(tm, k) ==
    IF tm[k].st = "armed" THEN [tm EXCEPT ![k] = DeadTimer]
    ELSE IF tm[k].st = "new" THEN [tm EXCEPT ![k].cancelled = TRUE]
    ELSE tm

\* Python truthiness of a time stamp: `not x` holds for None and for 0.
Falsy(x) == x = None \/ x = 0


\* ------------------------------------------------- TimeDelay: pure parts
\* An __init__ that replaces negative numbers only.
CoerceShots_negativeOnly(n) == IF n < 0 THEN 1 ELSE n

\* __init__, lines 155-157: n_shots of None, 0 or a negative number becomes 1.
\* The argument 0 stands for both 0 and None (`not self.n_shots`).
CoerceShots(n) == IF n = 0 \/ n < 0 THEN 1 ELSE n

\* start(), line 173: the interval of the Timer built when resuming.
ResumeInterval == timeout - (pausedTime - startedTime)

\* A remaining() that goes on reading the clock while the delay is paused.
Remaining_clockWhilePaused(t) ==
    IF Falsy(startedTime) THEN timeout * n_shots
    ELSE timeout * remaining_shots + (timeout - (t - startedTime))

\* remaining(), lines 235-245, read when the clock shows t.
Remaining(t) ==
    IF Falsy(startedTime) THEN timeout * n_shots
    ELSE IF Falsy(pausedTime)
         THEN timeout * remaining_shots + (timeout - (t - startedTime))
         ELSE timeout * remaining_shots + (timeout - (pausedTime - startedTime))

\* An elapsed() computed from the clock and the shots instead of remaining().
Elapsed_ownClock(t) ==
    IF Falsy(startedTime) THEN 0
    ELSE timeout * (n_shots - remaining_shots) + (t - startedTime)

\* elapsed(), line 226.
Elapsed(t) == timeout * n_shots - Remaining(t)

\* is_done(), line 216.
IsDone == state = DONE

\* _internal_callback, line 255: was this the last shot?
LastShot == remaining_shots = 0

\* _internal_callback, line 262: call the user callback?
ShouldCallBack == state = DONE /\ callback

\* ------------------------------------------- StatisticsDelay: pure parts
\* my_statistics.Metrics and my_statistics.Comparator.
LAST_VALUE == "last_value"
MEAN == "mean"
ST_DEV == "st_dev"
Metrics == {LAST_VALUE, MEAN, ST_DEV}
GREATER_THAN == "greater_than"
LESS_THAN == "less_than"
EQUAL_TO == "equal_to"
Comparators == {GREATER_THAN, LESS_THAN, EQUAL_TO}

\* The numbers read_value() can return.
Samples == 0..MaxSample

\* An append that drops the oldest element as soon as the list is full.
LimitedAppend_earlyEviction(items, x, max_length) ==
    IF Len(Append(items, x)) >= max_length
    THEN Tail(Append(items, x))
    ELSE Append(items, x)

\* LimitedList.append, lists.py lines 6-10: append, then drop the oldest
\* element when the list got longer than max_length.
LimitedAppend(items, x, max_length) ==
    IF Len(Append(items, x)) > max_length
    THEN Tail(Append(items, x))
    ELSE Append(items, x)

RECURSIVE Sum(_)
Sum(xs) == IF xs = <<>> THEN 0 ELSE Head(xs) + Sum(Tail(xs))

RECURSIVE SumSq(_)
SumSq(xs) == IF xs = <<>> THEN 0 ELSE Head(xs) * Head(xs) + SumSq(Tail(xs))

\* A metric value: none (Python's None), or the number num / den, or its
\* square root when root is set.  den is positive.
NoMetric == [none |-> TRUE, num |-> 0, den |-> 1, root |-> FALSE]
Ratio(n, d, r) == [none |-> FALSE, num |-> n, den |-> d, root |-> r]

\* A compute_metric that does not test len(values) > 1: statistics.stdev of
\* a single sample is no number (a zero denominator).
ComputeMetric_noGuard(xs, m) ==
    IF xs = <<>> THEN NoMetric
    ELSE IF m = LAST_VALUE THEN Ratio(xs[Len(xs)], 1, FALSE)
    ELSE IF m = MEAN THEN Ratio(Sum(xs), Len(xs), FALSE)
    ELSE IF m = ST_DEV
         THEN Ratio(Len(xs) * SumSq(xs) - Sum(xs) * Sum(xs),
                    Len(xs) * (Len(xs) - 1), TRUE)
    ELSE NoMetric

\* compute_metric, my_statistics.py lines 14-24.  statistics.stdev is the
\* square root of (n * sum of squares - square of the sum) / (n * (n - 1)).
ComputeMetric(xs, m) ==
    IF xs = <<>> THEN NoMetric
    ELSE IF m = LAST_VALUE THEN Ratio(xs[Len(xs)], 1, FALSE)
    ELSE IF m = MEAN THEN Ratio(Sum(xs), Len(xs), FALSE)
    ELSE IF m = ST_DEV
         THEN IF Len(xs) > 1
              THEN Ratio(Len(xs) * SumSq(xs) - Sum(xs) * Sum(xs),
                         Len(xs) * (Len(xs) - 1), TRUE)
              ELSE Ratio(0, 1, FALSE)
    ELSE NoMetric

\* computed_metric < reference_value, > and ==, on exact numbers.
MetricLess(cm, ref) ==
    IF cm.root THEN ref > 0 /\ cm.num < ref * ref * cm.den
    ELSE cm.num < ref * cm.den
MetricGreater(cm, ref) ==
    IF cm.root THEN ref < 0 \/ cm.num > ref * ref * cm.den
    ELSE cm.num > ref * cm.den
MetricEqual(cm, ref) ==
    IF cm.root THEN ref >= 0 /\ cm.num = ref * ref * cm.den
    ELSE cm.num = ref * cm.den

\* A check_match whose greater-than also accepts a metric equal to the
\* reference.
CheckMatch_notStrict(cm, cmp, ref) ==
    /\ ~cm.none
    /\ \/ cmp = LESS_THAN /\ MetricLess(cm, ref)
       \/ cmp = GREATER_THAN /\ ~MetricLess(cm, ref)
       \/ cmp = EQUAL_TO /\ MetricEqual(cm, ref)

\* check_match, my_statistics.py lines 36-44.
CheckMatch(cm, cmp, ref) ==
    /\ ~cm.none
    /\ \/ cmp = LESS_THAN /\ MetricLess(cm, ref)
       \/ cmp = GREATER_THAN /\ MetricGreater(cm, ref)
       \/ cmp = EQUAL_TO /\ MetricEqual(cm, ref)

\* A trigger that waits for a second sample before it compares.
Trigger_minSamples(xs) ==
    Len(xs) >= 2 /\ CheckMatch(ComputeMetric(xs, metric), comparator, reference_value)

\* _timer_task, lines 424-428: the trigger computed on the window xs.
Trigger(xs) == CheckMatch(ComputeMetric(xs, metric), comparator, reference_value)

\* StatisticsDelay.is_done(), line 398, and elapsed(), line 405.
StatIsDone == sstate = DONE
StatElapsed == elapsed_time

\* ------------------------------------------------------------------- Init
\* TimeDelay.__init__(timeout, callback, n_shots), lines 153-162, with the
\* timeout drawn from T, the n_shots argument from N and the callback from CB.
TimeDelayInit(T, N, CB) ==
    /\ timeout \in T
    /\ \E a \in N : n_shots = CoerceShots(a)
    /\ callback \in CB
    /\ remaining_shots = n_shots
    /\ timers = [k \in TimerIds |-> IF k = 1 THEN NewTimer(timeout) ELSE NoTimer]
    /\ nTimers = 1
    /\ timer = 1
    /\ startedTime = None
    /\ pausedTime = None
    /\ state = INITIATED

\* The clock, the threads and the histories when the delay has just been built.
Fresh ==
    /\ now = Epoch
    /\ pc = [p \in Threads |-> "idle"]
    /\ stack = [p \in Threads |-> <<>>]
    /\ cbCount = 0
    /\ ranInShot = 0
    /\ nOps = 0
    /\ alone = TRUE
    /\ raised = {}
    /\ lastOp = "none"
    /\ stateAtCall = INITIATED
    /\ pendingAtCall = FALSE
    /\ startedFor = 0
    /\ wasReset = FALSE
    /\ fired = 0
    /\ reads = <<>>
    /\ sCalls = 0

\* self.values = None.
NoValues == [none |-> TRUE, items |-> <<>>]

\* There is no StatisticsDelay around a TimeDelay the callers hold themselves.
NoStatistics ==
    /\ reference_value = 0
    /\ metric = "none"
    /\ comparator = "none"
    /\ scallback = FALSE
    /\ sstate = INITIATED
    /\ values = NoValues
    /\ started_time = None
    /\ elapsed_time = 0
    /\ values_lock = 0
    /\ read_value = "returns"

\* The delay is no ThresholdDelay.
NoThreshold == threshold = 0 /\ mode = "none"

\* The n_shots argument of the constructor: not recorded, or the number v.
NotRecorded == [given |-> FALSE, v |-> 0]
Given(v) == [given |-> TRUE, v |-> v]

\* ------------------------------------------------------------ DelayFactory
\* The classes that can be registered, and the keys they are registered
\* under: the values of DelayType, the kinds src/main.py passes (lines 135
\* and 142), and a key of the caller's own.
Classes == {"TimeDelay", "StatisticsDelay", "CustomDelay"}
MainKinds == {"time", "statistics"}
Keys == {"TimeDelay", "StatisticsDelay", "custom"} \cup MainKinds
\* The keys the callers register classes under: one that is registered at
\* the import, and one that is not.
OwnKeys == {"TimeDelay", "custom"}

\* DelayType, lines 11-14: the value of an enumerant.
DelayTypes == {"TIME", "STATISTICS"}
DelayTypeValue(e) == IF e = "TIME" THEN "TimeDelay" ELSE "StatisticsDelay"

\* A delay_type argument: an enumerant of DelayType or a raw key.
Enumerant(e) == [enum |-> TRUE, v |-> e]
RawKey(k) == [enum |-> FALSE, v |-> k]

\* The dict as the sequence of its items.
KeysOf(reg) == [i \in 1..Len(reg) |-> reg[i].key]
HasKey(reg, k) == \E i \in 1..Len(reg) : reg[i].key = k
\* dict.get(k): the class stored under k, "None" when there is none.
Get(reg, k) ==
    IF HasKey(reg, k) THEN reg[CHOOSE i \in 1..Len(reg) : reg[i].key = k].cls
    ELSE "None"

\* A register_delay that keeps the class a key already has.
Store_keepsFirst(reg, k, c) ==
    IF HasKey(reg, k) THEN reg ELSE Append(reg, [key |-> k, cls |-> c])

\* cls._registry[key] = delay_class, line 60: a key the dict has keeps its
\* place, a new key goes last.
Store(reg, k, c) ==
    IF HasKey(reg, k)
    THEN [i \in 1..Len(reg) |-> IF reg[i].key = k THEN [key |-> k, cls |-> c]
                                                  ELSE reg[i]]
    ELSE Append(reg, [key |-> k, cls |-> c])

\* utils/delays/__init__.py, lines 7-8, run when the package is imported.
BuiltIns ==
    Store(Store(<<>>, DelayTypeValue("TIME"), "TimeDelay"),
          DelayTypeValue("STATISTICS"), "StatisticsDelay")

NoListing == [taken |-> FALSE, live |-> FALSE, items |-> <<>>, edits |-> 0]
NoCreate == [by |-> "none", arg |-> RawKey("none"), params |-> 0,
             outcome |-> "none", cls |-> "None"]

\* The package has been imported and nothing has called the factory since.
Imported ==
    /\ registry = BuiltIns
    /\ log = <<>>
    /\ listing = NoListing
    /\ expected = <<>>
    /\ created = NoCreate

\* Nothing has called my_statistics directly.
NoMetricCall ==
    /\ argValues = <<>>
    /\ argMetric = "none"
    /\ argComparator = "none"
    /\ argReference = 0
    /\ appended = None
    /\ computed_metric = NoMetric
    /\ trigger = FALSE
    /\ step = "idle"

\* The components around the delay the callers hold.
Elsewhere == NoMetricCall /\ Imported

\* A TimeDelay built with a positive timeout.
Construct ==
    /\ kind = TIME
    /\ TimeDelayInit(1..MaxTimeout, (0 - 1)..MaxShots, BOOLEAN)
    /\ NoStatistics
    /\ NoThreshold
    /\ shotsArg = NotRecorded
    /\ Fresh
    /\ Elsewhere

\* A TimeDelay built with any timeout: __init__ tests n_shots only.
ConstructAny ==
    /\ kind = TIME
    /\ TimeDelayInit((0 - 1)..MaxTimeout, (0 - 1)..MaxShots, BOOLEAN)
    /\ NoStatistics
    /\ NoThreshold
    /\ shotsArg = NotRecorded
    /\ Fresh
    /\ Elsewhere

\* StatisticsDelay.__init__, lines 326-341, with the reference value drawn
\* from R and the read_value function from RV.  Its timer is
\* TimeDelay(timer_interval, self._timer_task): one shot, a callback.
StatisticsInit(R, RV) ==
    /\ kind = STATISTICS
    /\ TimeDelayInit(1..MaxTimeout, {1}, {TRUE})
    /\ reference_value \in R
    /\ metric \in Metrics
    /\ comparator \in Comparators
    /\ scallback \in BOOLEAN
    /\ read_value \in RV
    /\ sstate = INITIATED
    /\ values = NoValues
    /\ started_time = None
    /\ elapsed_time = 0
    /\ values_lock = 0
    /\ NoThreshold
    /\ shotsArg = NotRecorded
    /\ Fresh
    /\ Elsewhere

\* A StatisticsDelay whose read_value always returns a number.
ConstructStatistics == StatisticsInit(0..MaxRef, {"returns"})

\* TimeDelay(timeout, callback, n_shots) with a positive timeout, the n_shots
\* argument recorded.
ConstructFrom ==
    /\ kind = TIME
    /\ shotsArg \in {Given(a) : a \in (0 - 1)..MaxShots}
    /\ TimeDelayInit(1..MaxTimeout, {shotsArg.v}, BOOLEAN)
    /\ NoStatistics
    /\ NoThreshold
    /\ Fresh
    /\ Elsewhere

Init == Construct /\ serial = FALSE
InitBuild == ConstructFrom /\ serial = TRUE
InitSerial == Construct /\ serial = TRUE
InitAny == ConstructAny /\ serial = TRUE
InitKinds == (Construct \/ ConstructStatistics) /\ serial = TRUE

\* ------------------------------------------------------------ scheduling
\* Thread p is not inside a method of the delay nor inside an expiry handler.
\* (M170 and M172 are lines of the sweep driver's loop, between two calls.)
Idle(p) == pc[p] \in {"idle", "M170", "M172"}
\* Thread p may take a step: always when the threads interleave freely; in a
\* serial run only when no other thread is inside a call or a handler.
MayStep(p) == serial => \A q \in Threads \ {p} : Idle(q)
Quiet == \A q \in Threads : Idle(q)

\* ------------------------------------------------------- control transfer
Goto(p, l) == pc' = [pc EXCEPT ![p] = l] /\ UNCHANGED stack

\* Call a method whose first line is l, continuing at the labels rets after it
\* returns.
CallAt(p, l, rets) ==
    /\ pc' = [pc EXCEPT ![p] = l]
    /\ stack' = [stack EXCEPT ![p] = rets \o stack[p]]

\* Return from a method to the label on top of the stack; a caller thread with
\* an empty stack has finished its call.
Return(p) ==
    /\ pc' = [pc EXCEPT ![p] = IF stack[p] = <<>> THEN "idle" ELSE Head(stack[p])]
    /\ stack' = [stack EXCEPT ![p] = IF stack[p] = <<>> THEN <<>> ELSE Tail(stack[p])]

\* The thread of a Timer ends when its function returns or raises.
EndThread(tm, p) == IF IsCaller(p) THEN tm ELSE [tm EXCEPT ![TimerOf(p)] = DeadTimer]

\* An exception nobody catches: it unwinds the whole call stack of thread p.
Raise(p, e) ==
    /\ pc' = [pc EXCEPT ![p] = "idle"]
    /\ stack' = [stack EXCEPT ![p] = <<>>]
    /\ raised' = raised \cup {e}
    /\ timers' = EndThread(timers, p)


\* ---------------------------------------------------- the callers' calls
\* A caller thread that is not inside a call issues the next one.
\* The caller threads are interchangeable: the next call is issued by the first
\* of them that is not inside one.
CanCall(c) ==
    /\ IsCaller(c) /\ pc[c] = "idle" /\ MayStep(c)
    /\ \A d \in Callers : d < c => pc[d] # "idle"
    /\ nOps < (IF kind = STATISTICS /\ ~serial THEN MaxOpsThreads
                ELSE IF kind \in {STATISTICS, THRESHOLD} THEN MaxOpsStat
                ELSE IF serial THEN MaxOpsSerial ELSE MaxOps)

Issue(c, l) ==
    /\ CanCall(c)
    /\ pc' = [pc EXCEPT ![c] = l]
    /\ nOps' = nOps + 1
    /\ UNCHANGED <<cfgVars, statVars, objVars, timers, nTimers, now, stack, cbCount,
                   ranInShot, raised>>

\* The Timer self.timer refers to is waiting for its interval.
AlarmPending == timers[timer].st = "armed"

\* History of the call being issued.
Noted(op) ==
    /\ lastOp' = op
    /\ stateAtCall' = state
    /\ pendingAtCall' = AlarmPending
    /\ wasReset' = (wasReset \/ op = "reset")
    /\ UNCHANGED <<startedFor, fired>>

CallStart(c) == Issue(c, "L169") /\ alone' = (nOps = 0) /\ Noted("start")
CallPause(c) == Issue(c, "L186") /\ alone' = FALSE /\ Noted("pause")
CallResume(c) == Issue(c, "L195") /\ alone' = FALSE /\ Noted("resume")
CallReset(c) == Issue(c, "L206") /\ alone' = FALSE /\ Noted("reset")

\* Thread p executes line l next.
At(p, l) == pc[p] = l /\ MayStep(p)

\* ------------------------------------------------------ TimeDelay.start
\* Lines 169-170: return when already started.  (Line 170 admits every other
\* state a TimeDelay can hold.)
Start169(p) ==
    /\ At(p, "L169")
    /\ IF state = STARTED THEN Return(p) ELSE Goto(p, "L171")
    /\ UNCHANGED <<cfgVars, statVars, objVars, timers, nTimers, now, histVars>>

\* Lines 171-174: when paused, build the Timer of the rest of the shot.  The
\* subtraction raises TypeError when a time stamp is None.
Start171(p) ==
    /\ At(p, "L171")
    /\ IF state # PAUSED
       THEN /\ Goto(p, "L175")
            /\ UNCHANGED <<timer, timers, nTimers, raised>>
       ELSE IF pausedTime = None \/ startedTime = None
       THEN /\ Raise(p, "TypeError")
            /\ UNCHANGED <<timer, nTimers>>
       ELSE /\ nTimers < MaxTimers
            /\ timers' = [timers EXCEPT ![nTimers + 1] = NewTimer(ResumeInterval)]
            /\ nTimers' = nTimers + 1
            /\ timer' = nTimers + 1
            /\ Goto(p, "L175")
            /\ UNCHANGED raised
    /\ UNCHANGED <<cfgVars, statVars, remaining_shots, state, startedTime, pausedTime, now,
                   cbCount, ranInShot, nOps, alone, callVars>>

\* Lines 175-177: when done, reset() first and go on at line 178.
Start175(p) ==
    /\ At(p, "L175")
    /\ IF state = DONE THEN CallAt(p, "L206", <<"L178">>) ELSE Goto(p, "L178")
    /\ UNCHANGED <<cfgVars, statVars, objVars, timers, nTimers, now, histVars>>

\* Line 178.
Start178(p) ==
    /\ At(p, "L178")
    /\ state' = STARTED
    /\ Goto(p, "L179")
    /\ UNCHANGED <<cfgVars, statVars, remaining_shots, startedTime, pausedTime, timer,
                   timers, nTimers, now, histVars>>

\* Line 179.
Start179(p) ==
    /\ At(p, "L179")
    /\ startedTime' = now
    /\ Goto(p, "L180")
    /\ UNCHANGED <<cfgVars, statVars, remaining_shots, state, pausedTime, timer,
                   timers, nTimers, now, histVars>>

\* Timer.start() of Timer k: its thread waits for the interval, or ends at once
\* when cancel() was called before.
Armed(tm, k) ==
    IF tm[k].cancelled THEN [tm EXCEPT ![k] = DeadTimer]
    ELSE [tm EXCEPT ![k].st = "armed", ![k].dl = now + tm[k].iv]

\* A start() that never starts the Timer it has built.
Start180_neverStarts(p) ==
    /\ At(p, "L180")
    /\ Return(p)
    /\ UNCHANGED <<cfgVars, statVars, objVars, timers, nTimers, now, histVars>>

\* Line 180: self.timer.start().  A thread can be started only once: starting
\* a Timer again raises RuntimeError.
Start180(p) ==
    /\ At(p, "L180")
    /\ IF timers[timer].st = "new"
       THEN /\ timers' = Armed(timers, timer)
            /\ Return(p)
            /\ UNCHANGED raised
       ELSE Raise(p, "RuntimeError")
    /\ UNCHANGED <<cfgVars, statVars, objVars, nTimers, now, cbCount, ranInShot, nOps, alone, callVars>>

\* ------------------------------------------------------ TimeDelay.pause
\* A pause() without the test of line 186.
Pause186_unguarded(p) ==
    /\ At(p, "L186")
    /\ Goto(p, "L187")
    /\ UNCHANGED <<cfgVars, statVars, objVars, timers, nTimers, now, histVars>>

\* Line 186.
Pause186(p) ==
    /\ At(p, "L186")
    /\ IF state # STARTED THEN Return(p) ELSE Goto(p, "L187")
    /\ UNCHANGED <<cfgVars, statVars, objVars, timers, nTimers, now, histVars>>

\* Line 187.
Pause187(p) ==
    /\ At(p, "L187")
    /\ state' = PAUSED
    /\ Goto(p, "L188")
    /\ UNCHANGED <<cfgVars, statVars, remaining_shots, startedTime, pausedTime, timer,
                   timers, nTimers, now, histVars>>

\* Line 188: self.timer.cancel().
Pause188(p) ==
    /\ At(p, "L188")
    /\ timers' = Cancel(timers, timer)
    /\ Goto(p, "L189")
    /\ UNCHANGED <<cfgVars, statVars, objVars, nTimers, now, histVars>>

\* Line 189.
Pause189(p) ==
    /\ At(p, "L189")
    /\ pausedTime' = now
    /\ ranInShot' = IF startedTime = None THEN ranInShot
                    ELSE ranInShot + (now - startedTime)
    /\ Return(p)
    /\ UNCHANGED <<cfgVars, statVars, remaining_shots, state, startedTime, timer,
                   timers, nTimers, now, cbCount, nOps, alone, raised,
                   callVars>>

\* ----------------------------------------------------- TimeDelay.resume
\* Lines 195-197: start() when paused.
Resume195(p) ==
    /\ At(p, "L195")
    /\ IF state # PAUSED THEN Return(p) ELSE Goto(p, "L169")
    /\ UNCHANGED <<cfgVars, statVars, objVars, timers, nTimers, now, histVars>>

\* ------------------------------------------------------ TimeDelay.reset
\* Line 206, then _rearm() (line 207).  The history of callbacks
\* starts again here.
Reset206(p) ==
    /\ At(p, "L206")
    /\ remaining_shots' = n_shots
    /\ cbCount' = 0
    /\ Goto(p, "L271")
    /\ UNCHANGED <<cfgVars, statVars, state, startedTime, pausedTime, timer, timers,
                   nTimers, now, ranInShot, nOps, alone, raised,
                   callVars>>

\* ----------------------------------------------------- TimeDelay._rearm
\* Line 271.
Rearm271(p) ==
    /\ At(p, "L271")
    /\ timers' = IF IsAlive(timer) THEN Cancel(timers, timer) ELSE timers
    /\ Goto(p, "L272")
    /\ UNCHANGED <<cfgVars, statVars, objVars, nTimers, now, histVars>>

\* Line 272.
Rearm272(p) ==
    /\ At(p, "L272")
    /\ nTimers < MaxTimers
    /\ timers' = [timers EXCEPT ![nTimers + 1] = NewTimer(timeout)]
    /\ nTimers' = nTimers + 1
    /\ timer' = nTimers + 1
    /\ Goto(p, "L273")
    /\ UNCHANGED <<cfgVars, statVars, remaining_shots, state, startedTime, pausedTime,
                   now, histVars>>

\* Line 273.  A new shot begins: nothing of it has run yet.
Rearm273(p) ==
    /\ At(p, "L273")
    /\ startedTime' = None
    /\ ranInShot' = 0
    /\ Goto(p, "L274")
    /\ UNCHANGED <<cfgVars, statVars, remaining_shots, state, pausedTime, timer, timers,
                   nTimers, now, cbCount, nOps, alone, raised,
                   callVars>>

\* Line 274.
Rearm274(p) ==
    /\ At(p, "L274")
    /\ pausedTime' = None
    /\ Goto(p, "L275")
    /\ UNCHANGED <<cfgVars, statVars, remaining_shots, state, startedTime, timer, timers,
                   nTimers, now, histVars>>

\* A _rearm() that leaves self.state as it is.
Rearm275_keepsState(p) ==
    /\ At(p, "L275")
    /\ Return(p)
    /\ UNCHANGED <<cfgVars, statVars, objVars, timers, nTimers, now, histVars>>

\* Line 275.
Rearm275(p) ==
    /\ At(p, "L275")
    /\ state' = INITIATED
    /\ Return(p)
    /\ UNCHANGED <<cfgVars, statVars, remaining_shots, startedTime, pausedTime, timer,
                   timers, nTimers, now, histVars>>

\* ------------------------------------------ TimeDelay._internal_callback
\* threading.Timer.run: the interval has passed and cancel() was not called,
\* so the Timer's thread calls its function, _internal_callback.
Fire(k) ==
    /\ timers[k].st = "armed"
    /\ now >= timers[k].dl
    /\ MayStep(ThreadOf(k))
    /\ (kind = STATISTICS /\ ~serial) => fired < MaxTicksThreads
    /\ timers' = [timers EXCEPT ![k].st = "running"]
    /\ pc' = [pc EXCEPT ![ThreadOf(k)] = "L254"]
    /\ fired' = IF kind = STATISTICS /\ ~serial THEN fired + 1 ELSE fired
    /\ UNCHANGED <<cfgVars, statVars, objVars, nTimers, now, stack, cbCount,
                   ranInShot, nOps, alone, raised, lastOp, stateAtCall,
                   pendingAtCall, startedFor, wasReset>>

\* Line 254.
Expiry254(p) ==
    /\ At(p, "L254")
    /\ remaining_shots' = remaining_shots - 1
    /\ Goto(p, "L255")
    /\ UNCHANGED <<cfgVars, statVars, state, startedTime, pausedTime, timer, timers,
                   nTimers, now, histVars>>

\* Lines 255-260: the last shot goes on at line 256; any other calls _rearm()
\* (line 259), then start() (line 260), and goes on at line 262.
Expiry255(p) ==
    /\ At(p, "L255")
    /\ IF LastShot
       THEN Goto(p, "L256")
       ELSE CallAt(p, "L271", <<"L169", "L262">>)
    /\ UNCHANGED <<cfgVars, statVars, objVars, timers, nTimers, now, histVars>>

\* Line 256.
Expiry256(p) ==
    /\ At(p, "L256")
    /\ state' = DONE
    /\ Goto(p, "L262")
    /\ UNCHANGED <<cfgVars, statVars, remaining_shots, startedTime, pausedTime, timer,
                   timers, nTimers, now, histVars>>

\* Line 262: call the user callback when done; otherwise the handler returns
\* and the Timer's thread ends.
Expiry262(p) ==
    /\ At(p, "L262")
    /\ IF ShouldCallBack
       THEN Goto(p, "L263") /\ UNCHANGED timers
       ELSE /\ Return(p)
            /\ timers' = EndThread(timers, p)
    /\ UNCHANGED <<cfgVars, statVars, objVars, nTimers, now, histVars>>

\* Line 263: self.callback(), the user's function; then the handler returns
\* and the thread ends.
Expiry263(p) ==
    /\ At(p, "L263")
    /\ kind = TIME
    /\ cbCount' = cbCount + 1
    /\ Return(p)
    /\ timers' = EndThread(timers, p)
    /\ UNCHANGED <<cfgVars, statVars, objVars, nTimers, now, ranInShot, nOps, alone, raised,
                   callVars>>

\* =========================================================================
\* StatisticsDelay.  Its timer is a TimeDelay of one shot whose callback is
\* _timer_task, so the lines above run inside its methods; the labels S... and
\* T... are lines of StatisticsDelay.
\* (self.paused_time is assigned in __init__ and never read: it is left out.)

\* The TimeDelay fields a step of StatisticsDelay itself leaves alone.
innerVars == <<objVars, timers, nTimers>>

\* History of a call issued on a StatisticsDelay.
SNoted(op) ==
    /\ lastOp' = op
    /\ stateAtCall' = sstate
    /\ pendingAtCall' = AlarmPending
    /\ wasReset' = (wasReset \/ op = "reset")
    /\ UNCHANGED <<startedFor, fired>>

StatCallStart(c) == Issue(c, "S348") /\ alone' = (nOps = 0) /\ SNoted("start")
StatCallPause(c) == Issue(c, "S365") /\ alone' = FALSE /\ SNoted("pause")
StatCallResume(c) == Issue(c, "S376") /\ alone' = FALSE /\ SNoted("resume")
StatCallReset(c) == Issue(c, "S388") /\ alone' = FALSE /\ SNoted("reset")

\* ------------------------------------------------- StatisticsDelay.start
\* A start() that begins a new session when the delay is done, as
\* TimeDelay.start does.
StatStart348_restartsDone(p) ==
    /\ At(p, "S348")
    /\ IF sstate \in {INITIATED, PAUSED, CONTINUE, DONE} THEN Goto(p, "S349") ELSE Return(p)
    /\ UNCHANGED <<cfgVars, statVars, innerVars, now, histVars>>

\* Line 348.
StatStart348(p) ==
    /\ At(p, "S348")
    /\ IF sstate \in {INITIATED, PAUSED, CONTINUE} THEN Goto(p, "S349") ELSE Return(p)
    /\ UNCHANGED <<cfgVars, statVars, innerVars, now, histVars>>

\* Lines 349-350: self.timer.resume() when paused.
StatStart349(p) ==
    /\ At(p, "S349")
    /\ IF sstate = PAUSED THEN CallAt(p, "L195", <<"S357">>) ELSE Goto(p, "S351")
    /\ UNCHANGED <<cfgVars, statVars, innerVars, now, histVars>>

\* Line 351.
StatStart351(p) ==
    /\ At(p, "S351")
    /\ IF sstate = INITIATED THEN Goto(p, "S352") ELSE Goto(p, "S354")
    /\ UNCHANGED <<cfgVars, statVars, innerVars, now, histVars>>

\* Line 352: a new, empty window.
StatStart352(p) ==
    /\ At(p, "S352")
    /\ values' = [none |-> FALSE, items |-> <<>>]
    /\ reads' = <<>>
    /\ Goto(p, "S353")
    /\ UNCHANGED <<cfgVars, values_lock, sstate, started_time, elapsed_time, sCalls, innerVars,
                   now, histVars>>

\* Line 353: self.timer.start().
StatStart353(p) ==
    /\ At(p, "S353")
    /\ CallAt(p, "L169", <<"S357">>)
    /\ UNCHANGED <<cfgVars, statVars, innerVars, now, histVars>>

\* A start() that arms nothing when the state is continue.
StatStart354_noRearm(p) ==
    /\ At(p, "S354")
    /\ Goto(p, "S357")
    /\ UNCHANGED <<cfgVars, statVars, innerVars, now, histVars>>

\* Lines 354-355: self.timer.reset() when the state is continue.
StatStart354(p) ==
    /\ At(p, "S354")
    /\ IF sstate = CONTINUE THEN CallAt(p, "L206", <<"S356">>) ELSE Goto(p, "S357")
    /\ UNCHANGED <<cfgVars, statVars, innerVars, now, histVars>>

\* Line 356: self.timer.start().
StatStart356(p) ==
    /\ At(p, "S356")
    /\ CallAt(p, "L169", <<"S357">>)
    /\ UNCHANGED <<cfgVars, statVars, innerVars, now, histVars>>

\* Line 357.
StatStart357(p) ==
    /\ At(p, "S357")
    /\ sstate' = STARTED
    /\ Goto(p, "S358")
    /\ UNCHANGED <<cfgVars, values_lock, values, started_time, elapsed_time, reads, sCalls,
                   innerVars, now, histVars>>

\* Line 358.
StatStart358(p) ==
    /\ At(p, "S358")
    /\ started_time' = now
    /\ Return(p)
    /\ UNCHANGED <<cfgVars, values_lock, sstate, values, elapsed_time, reads, sCalls,
                   innerVars, now, histVars>>

\* ------------------------------------------------- StatisticsDelay.pause
\* Lines 365-366.
StatPause365(p) ==
    /\ At(p, "S365")
    /\ IF sstate # STARTED THEN Return(p) ELSE Goto(p, "S367")
    /\ UNCHANGED <<cfgVars, statVars, innerVars, now, histVars>>

\* A pause() that leaves the timer running.
StatPause367_noTimerPause(p) ==
    /\ At(p, "S367")
    /\ Goto(p, "S368")
    /\ UNCHANGED <<cfgVars, statVars, innerVars, now, histVars>>

\* Line 367: self.timer.pause().
StatPause367(p) ==
    /\ At(p, "S367")
    /\ CallAt(p, "L186", <<"S368">>)
    /\ UNCHANGED <<cfgVars, statVars, innerVars, now, histVars>>

\* Line 368.  The subtraction raises TypeError when started_time is None.
StatPause368(p) ==
    /\ At(p, "S368")
    /\ IF started_time = None
       THEN /\ Raise(p, "TypeError")
            /\ UNCHANGED elapsed_time
       ELSE /\ elapsed_time' = elapsed_time + (now - started_time)
            /\ Goto(p, "S369")
            /\ UNCHANGED <<timers, raised>>
    /\ UNCHANGED <<cfgVars, values_lock, sstate, values, started_time, reads, sCalls, objVars,
                   nTimers, now, cbCount, ranInShot, nOps, alone, callVars>>

\* Line 369.
StatPause369(p) ==
    /\ At(p, "S369")
    /\ sstate' = PAUSED
    /\ Return(p)
    /\ UNCHANGED <<cfgVars, values_lock, values, started_time, elapsed_time, reads, sCalls,
                   innerVars, now, histVars>>

\* ------------------------------------------------ StatisticsDelay.resume
\* Lines 376-378: start() when paused.
StatResume376(p) ==
    /\ At(p, "S376")
    /\ IF sstate # PAUSED THEN Return(p) ELSE Goto(p, "S348")
    /\ UNCHANGED <<cfgVars, statVars, innerVars, now, histVars>>

\* ------------------------------------------------- StatisticsDelay.reset
\* Line 388: self.timer.reset().
StatReset388(p) ==
    /\ At(p, "S388")
    /\ CallAt(p, "L206", <<"S389">>)
    /\ UNCHANGED <<cfgVars, statVars, innerVars, now, histVars>>

\* The lines of TimeDelay: a thread at one of them is inside a method of the
\* TimeDelay that was self.timer when it made the call.
TimeDelayLines ==
    {"L169", "L171", "L175", "L178", "L179", "L180", "L186", "L187", "L188",
     "L189", "L195", "L206", "L254", "L255", "L256", "L262", "L271", "L272",
     "L273", "L274", "L275"}

\* The TimeDelay that is self.timer can be replaced by a new one in place:
\* no other thread is inside one of its methods and none of its Timers is
\* waiting, so nothing uses it afterwards.  (A handler at line 263 or inside
\* _timer_task only uses the StatisticsDelay from there on.)
Replaceable(p) ==
    /\ \A q \in Threads \ {p} : pc[q] \notin TimeDelayLines
    /\ \A k \in TimerIds : timers[k].st # "armed"

\* Lines 389-395: self.__init__(...) with the arguments the object was built
\* with.  Lines 326-341 assign every field again; self.timer becomes a new
\* TimeDelay, with a new Timer.  The history of callbacks starts again.
\* The variables hold one TimeDelay: when the threads interleave freely the
\* step is followed only from the states where the old one is Replaceable
\* (in a serial run every state at this line is).
StatReset389(p) ==
    /\ At(p, "S389")
    /\ serial \/ Replaceable(p)
    /\ nTimers < MaxTimers
    /\ values' = NoValues
    /\ timers' = [timers EXCEPT ![nTimers + 1] = NewTimer(timeout)]
    /\ nTimers' = nTimers + 1
    /\ timer' = nTimers + 1
    /\ remaining_shots' = n_shots
    /\ startedTime' = None
    /\ pausedTime' = None
    /\ state' = INITIATED
    /\ started_time' = None
    /\ elapsed_time' = 0
    /\ values_lock' = 0
    /\ sstate' = INITIATED
    /\ reads' = <<>>
    /\ sCalls' = 0
    /\ startedFor' = 0
    /\ Return(p)
    /\ UNCHANGED <<cfgVars, now, cbCount, ranInShot, nOps, alone, raised,
                   lastOp, stateAtCall, pendingAtCall, wasReset, fired>>

\* ------------------------------------------- StatisticsDelay._timer_task
\* TimeDelay._internal_callback, line 263, when self.callback is the
\* _timer_task of a StatisticsDelay.
Callback263(p) ==
    /\ At(p, "L263")
    /\ kind = STATISTICS
    /\ CallAt(p, "T422", <<"L263r">>)
    /\ UNCHANGED <<cfgVars, statVars, innerVars, now, histVars>>

\* _timer_task has returned to line 263: the handler returns and the Timer's
\* thread ends.
HandlerReturn(p) ==
    /\ At(p, "L263r")
    /\ Return(p)
    /\ timers' = EndThread(timers, p)
    /\ UNCHANGED <<cfgVars, statVars, objVars, nTimers, now, histVars>>

\* Line 422: enter the block under self._values_lock; a thread waits here
\* while another thread holds the lock.
TimerTask422(p) ==
    /\ At(p, "T422")
    /\ values_lock = 0
    /\ values_lock' = p
    /\ Goto(p, "T423")
    /\ UNCHANGED <<cfgVars, sstate, values, started_time, elapsed_time, reads,
                   sCalls, innerVars, now, histVars>>

\* Line 423, self.values.append(self.read_value()), when read_value returns:
\* append the sample to the window.  Looking up append on None raises
\* AttributeError before read_value is called; leaving the block through an
\* exception releases the lock.
TimerTask423(p) ==
    /\ At(p, "T423")
    /\ IF values.none
       THEN /\ Raise(p, "AttributeError")
            /\ values_lock' = 0
            /\ UNCHANGED <<values, reads>>
       ELSE /\ \E x \in Samples :
                /\ values' = [values EXCEPT
                                 !.items = LimitedAppend(@, x, WindowLength)]
                /\ reads' = Append(reads, x)
            /\ Goto(p, "T424")
            /\ UNCHANGED <<values_lock, timers, raised>>
    /\ UNCHANGED <<cfgVars, sstate, started_time, elapsed_time, sCalls, objVars,
                   nTimers, now, cbCount, ranInShot, nOps, alone, callVars>>

\* A tick that goes on as if the sample had not matched when read_value
\* raises.
ReadRaises423_swallowed(p) ==
    /\ At(p, "T423")
    /\ ~values.none
    /\ read_value = "raises"
    /\ reads' = Append(reads, None)
    /\ values_lock' = 0
    /\ Goto(p, "T433")
    /\ UNCHANGED <<cfgVars, sstate, values, started_time, elapsed_time, sCalls,
                   innerVars, now, histVars>>

\* Line 423 when read_value raises: nothing is appended, the exception leaves
\* the block (the lock is released), _timer_task and the handler that called
\* it, and the Timer's thread ends.
ReadRaises423(p) ==
    /\ At(p, "T423")
    /\ ~values.none
    /\ read_value = "raises"
    /\ reads' = Append(reads, None)
    /\ values_lock' = 0
    /\ Raise(p, "ReadError")
    /\ UNCHANGED <<cfgVars, sstate, values, started_time, elapsed_time, sCalls,
                   objVars, nTimers, now, cbCount, ranInShot, nOps, alone, callVars>>

\* Lines 424-429: compute the trigger on the window, leave the block (the
\* lock is released) and branch on the trigger.
TimerTask424(p) ==
    /\ At(p, "T424")
    /\ values_lock' = 0
    /\ Goto(p, IF Trigger(values.items) THEN "T430" ELSE "T433")
    /\ UNCHANGED <<cfgVars, sstate, values, started_time, elapsed_time, reads,
                   sCalls, innerVars, now, histVars>>

\* A triggering tick that leaves self.state as it is.
TimerTask430_keepsState(p) ==
    /\ At(p, "T430")
    /\ Goto(p, "T431")
    /\ UNCHANGED <<cfgVars, statVars, innerVars, now, histVars>>

\* Line 430.
TimerTask430(p) ==
    /\ At(p, "T430")
    /\ sstate' = DONE
    /\ Goto(p, "T431")
    /\ UNCHANGED <<cfgVars, values_lock, values, started_time, elapsed_time, reads, sCalls,
                   innerVars, now, histVars>>

\* Line 431: self._internal_callback(), lines 437-438.
TimerTask431(p) ==
    /\ At(p, "T431")
    /\ sCalls' = IF scallback THEN sCalls + 1 ELSE sCalls
    /\ Return(p)
    /\ UNCHANGED <<cfgVars, values_lock, sstate, values, started_time, elapsed_time, reads,
                   innerVars, now, histVars>>

\* Line 433.
TimerTask433(p) ==
    /\ At(p, "T433")
    /\ sstate' = CONTINUE
    /\ Goto(p, "T434")
    /\ UNCHANGED <<cfgVars, values_lock, values, started_time, elapsed_time, reads, sCalls,
                   innerVars, now, histVars>>

\* Line 434: self.start(), the last statement of _timer_task.
TimerTask434(p) ==
    /\ At(p, "T434")
    /\ Goto(p, "S348")
    /\ UNCHANGED <<cfgVars, statVars, innerVars, now, histVars>>

\* ------------------------------------------------------------- the clock
\* Time passes.  In a serial run calls and handlers take no time, and the
\* clock runs freely up to MaxTime.  Beyond that, and when the threads
\* interleave freely, the clock is advanced only while some Timer is waiting
\* for it.
Waiting == \E k \in TimerIds : timers[k].st = "armed" /\ now < timers[k].dl
Tick ==
    /\ IF serial THEN Quiet /\ (now < MaxTime \/ Waiting) ELSE Waiting
    /\ now' = now + 1
    /\ startedFor' = IF kind = STATISTICS /\ sstate = STARTED
                     THEN startedFor + 1 ELSE startedFor
    /\ UNCHANGED <<cfgVars, statVars, objVars, timers, nTimers, pc, stack,
                   cbCount, ranInShot, nOps, alone, raised,
                   lastOp, stateAtCall, pendingAtCall, wasReset, fired>>

\* ------------------------------------------------------------------ Next
Next ==
    \/ \E c \in Callers : CallStart(c)
    \/ \E c \in Callers : CallPause(c)
    \/ \E c \in Callers : CallResume(c)
    \/ \E c \in Callers : CallReset(c)
    \/ \E p \in Threads : Start169(p)
    \/ \E p \in Threads : Start171(p)
    \/ \E p \in Threads : Start175(p)
    \/ \E p \in Threads : Start178(p)
    \/ \E p \in Threads : Start179(p)
    \/ \E p \in Threads : Start180(p)
    \/ \E p \in Threads : Pause186(p)
    \/ \E p \in Threads : Pause187(p)
    \/ \E p \in Threads : Pause188(p)
    \/ \E p \in Threads : Pause189(p)
    \/ \E p \in Threads : Resume195(p)
    \/ \E p \in Threads : Reset206(p)
    \/ \E p \in Threads : Rearm271(p)
    \/ \E p \in Threads : Rearm272(p)
    \/ \E p \in Threads : Rearm273(p)
    \/ \E p \in Threads : Rearm274(p)
    \/ \E p \in Threads : Rearm275(p)
    \/ \E k \in TimerIds : Fire(k)
    \/ \E p \in Threads : Expiry254(p)
    \/ \E p \in Threads : Expiry255(p)
    \/ \E p \in Threads : Expiry256(p)
    \/ \E p \in Threads : Expiry262(p)
    \/ \E p \in Threads : Expiry263(p)
    \/ Tick

Spec == Init /\ [][Next]_vars
SpecSerial == InitSerial /\ [][Next]_vars
\* Serial runs of a TimeDelay built with any timeout.
SpecAny == InitAny /\ [][Next]_vars
\* Serial runs of a TimeDelay whose n_shots argument is recorded.
SpecBuild == InitBuild /\ [][Next]_vars

\* Serial runs of a delay of either class: the callers call the methods of
\* the delay they hold, and the lines of TimeDelay run for it or for the timer
\* of the StatisticsDelay.
NextKinds ==
    \/ kind = TIME /\ \E c \in Callers : CallStart(c)
    \/ kind = TIME /\ \E c \in Callers : CallPause(c)
    \/ kind = TIME /\ \E c \in Callers : CallResume(c)
    \/ kind = TIME /\ \E c \in Callers : CallReset(c)
    \/ kind = STATISTICS /\ \E c \in Callers : StatCallStart(c)
    \/ kind = STATISTICS /\ \E c \in Callers : StatCallPause(c)
    \/ kind = STATISTICS /\ \E c \in Callers : StatCallResume(c)
    \/ kind = STATISTICS /\ \E c \in Callers : StatCallReset(c)
    \/ \E p \in Threads : Start169(p)
    \/ \E p \in Threads : Start171(p)
    \/ \E p \in Threads : Start175(p)
    \/ \E p \in Threads : Start178(p)
    \/ \E p \in Threads : Start179(p)
    \/ \E p \in Threads : Start180(p)
    \/ \E p \in Threads : Pause186(p)
    \/ \E p \in Threads : Pause187(p)
    \/ \E p \in Threads : Pause188(p)
    \/ \E p \in Threads : Pause189(p)
    \/ \E p \in Threads : Resume195(p)
    \/ \E p \in Threads : Reset206(p)
    \/ \E p \in Threads : Rearm271(p)
    \/ \E p \in Threads : Rearm272(p)
    \/ \E p \in Threads : Rearm273(p)
    \/ \E p \in Threads : Rearm274(p)
    \/ \E p \in Threads : Rearm275(p)
    \/ \E k \in TimerIds : Fire(k)
    \/ \E p \in Threads : Expiry254(p)
    \/ \E p \in Threads : Expiry255(p)
    \/ \E p \in Threads : Expiry256(p)
    \/ \E p \in Threads : Expiry262(p)
    \/ \E p \in Threads : Expiry263(p)
    \/ \E p \in Threads : Callback263(p)
    \/ \E p \in Threads : HandlerReturn(p)
    \/ \E p \in Threads : TimerTask422(p)
    \/ \E p \in Threads : TimerTask423(p)
    \/ \E p \in Threads : TimerTask424(p)
    \/ \E p \in Threads : TimerTask430(p)
    \/ \E p \in Threads : TimerTask431(p)
    \/ \E p \in Threads : TimerTask433(p)
    \/ \E p \in Threads : TimerTask434(p)
    \/ \E p \in Threads : StatStart348(p)
    \/ \E p \in Threads : StatStart349(p)
    \/ \E p \in Threads : StatStart351(p)
    \/ \E p \in Threads : StatStart352(p)
    \/ \E p \in Threads : StatStart353(p)
    \/ \E p \in Threads : StatStart354(p)
    \/ \E p \in Threads : StatStart356(p)
    \/ \E p \in Threads : StatStart357(p)
    \/ \E p \in Threads : StatStart358(p)
    \/ \E p \in Threads : StatPause365(p)
    \/ \E p \in Threads : StatPause367(p)
    \/ \E p \in Threads : StatPause368(p)
    \/ \E p \in Threads : StatPause369(p)
    \/ \E p \in Threads : StatResume376(p)
    \/ \E p \in Threads : StatReset388(p)
    \/ \E p \in Threads : StatReset389(p)
    \/ Tick

SpecKinds == InitKinds /\ [][NextKinds]_vars

\* A StatisticsDelay whose read_value may raise on any call.
InitRead == StatisticsInit({MaxRef}, {"raises"}) /\ serial = TRUE

\* The steps of a StatisticsDelay and of its timer.
NextStat ==
    \/ \E c \in Callers : StatCallStart(c)
    \/ \E c \in Callers : StatCallPause(c)
    \/ \E c \in Callers : StatCallResume(c)
    \/ \E c \in Callers : StatCallReset(c)
    \/ \E p \in Threads : Start169(p)
    \/ \E p \in Threads : Start171(p)
    \/ \E p \in Threads : Start175(p)
    \/ \E p \in Threads : Start178(p)
    \/ \E p \in Threads : Start179(p)
    \/ \E p \in Threads : Start180(p)
    \/ \E p \in Threads : Pause186(p)
    \/ \E p \in Threads : Pause187(p)
    \/ \E p \in Threads : Pause188(p)
    \/ \E p \in Threads : Pause189(p)
    \/ \E p \in Threads : Resume195(p)
    \/ \E p \in Threads : Reset206(p)
    \/ \E p \in Threads : Rearm271(p)
    \/ \E p \in Threads : Rearm272(p)
    \/ \E p \in Threads : Rearm273(p)
    \/ \E p \in Threads : Rearm274(p)
    \/ \E p \in Threads : Rearm275(p)
    \/ \E k \in TimerIds : Fire(k)
    \/ \E p \in Threads : Expiry254(p)
    \/ \E p \in Threads : Expiry255(p)
    \/ \E p \in Threads : Expiry256(p)
    \/ \E p \in Threads : Expiry262(p)
    \/ \E p \in Threads : Callback263(p)
    \/ \E p \in Threads : HandlerReturn(p)
    \/ \E p \in Threads : TimerTask422(p)
    \/ \E p \in Threads : TimerTask423(p)
    \/ \E p \in Threads : ReadRaises423(p)
    \/ \E p \in Threads : TimerTask424(p)
    \/ \E p \in Threads : TimerTask430(p)
    \/ \E p \in Threads : TimerTask431(p)
    \/ \E p \in Threads : TimerTask433(p)
    \/ \E p \in Threads : TimerTask434(p)
    \/ \E p \in Threads : StatStart348(p)
    \/ \E p \in Threads : StatStart349(p)
    \/ \E p \in Threads : StatStart351(p)
    \/ \E p \in Threads : StatStart352(p)
    \/ \E p \in Threads : StatStart353(p)
    \/ \E p \in Threads : StatStart354(p)
    \/ \E p \in Threads : StatStart356(p)
    \/ \E p \in Threads : StatStart357(p)
    \/ \E p \in Threads : StatStart358(p)
    \/ \E p \in Threads : StatPause365(p)
    \/ \E p \in Threads : StatPause367(p)
    \/ \E p \in Threads : StatPause368(p)
    \/ \E p \in Threads : StatPause369(p)
    \/ \E p \in Threads : StatResume376(p)
    \/ \E p \in Threads : StatReset388(p)
    \/ \E p \in Threads : StatReset389(p)
    \/ Tick

\* Serial runs of a StatisticsDelay whose read_value may raise.
SpecRead == InitRead /\ [][NextStat]_vars

\* A StatisticsDelay whose caller and tick handlers interleave freely between
\* source lines: StatisticsDelay(0, LAST_VALUE, GREATER_THAN, 1, read_value,
\* callback), which triggers on the first sample above 0.
InitThreads ==
    /\ kind = STATISTICS
    /\ TimeDelayInit({1}, {1}, {TRUE})
    /\ reference_value = 0
    /\ metric = LAST_VALUE
    /\ comparator = GREATER_THAN
    /\ scallback = TRUE
    /\ read_value = "returns"
    /\ sstate = INITIATED
    /\ values = NoValues
    /\ started_time = None
    /\ elapsed_time = 0
    /\ values_lock = 0
    /\ NoThreshold
    /\ shotsArg = NotRecorded
    /\ Fresh
    /\ Elsewhere
    /\ serial = FALSE

NextThreads ==
    \/ \E c \in Callers : StatCallStart(c)
    \/ \E c \in Callers : StatCallPause(c)
    \/ \E c \in Callers : StatCallResume(c)
    \/ \E c \in Callers : StatCallReset(c)
    \/ \E p \in Threads : Start169(p)
    \/ \E p \in Threads : Start171(p)
    \/ \E p \in Threads : Start175(p)
    \/ \E p \in Threads : Start178(p)
    \/ \E p \in Threads : Start179(p)
    \/ \E p \in Threads : Start180(p)
    \/ \E p \in Threads : Pause186(p)
    \/ \E p \in Threads : Pause187(p)
    \/ \E p \in Threads : Pause188(p)
    \/ \E p \in Threads : Pause189(p)
    \/ \E p \in Threads : Resume195(p)
    \/ \E p \in Threads : Reset206(p)
    \/ \E p \in Threads : Rearm271(p)
    \/ \E p \in Threads : Rearm272(p)
    \/ \E p \in Threads : Rearm273(p)
    \/ \E p \in Threads : Rearm274(p)
    \/ \E p \in Threads : Rearm275(p)
    \/ \E k \in TimerIds : Fire(k)
    \/ \E p \in Threads : Expiry254(p)
    \/ \E p \in Threads : Expiry255(p)
    \/ \E p \in Threads : Expiry256(p)
    \/ \E p \in Threads : Expiry262(p)
    \/ \E p \in Threads : Callback263(p)
    \/ \E p \in Threads : HandlerReturn(p)
    \/ \E p \in Threads : TimerTask422(p)
    \/ \E p \in Threads : TimerTask423(p)
    \/ \E p \in Threads : TimerTask424(p)
    \/ \E p \in Threads : TimerTask430(p)
    \/ \E p \in Threads : TimerTask431(p)
    \/ \E p \in Threads : TimerTask433(p)
    \/ \E p \in Threads : TimerTask434(p)
    \/ \E p \in Threads : StatStart348(p)
    \/ \E p \in Threads : StatStart349(p)
    \/ \E p \in Threads : StatStart351(p)
    \/ \E p \in Threads : StatStart352(p)
    \/ \E p \in Threads : StatStart353(p)
    \/ \E p \in Threads : StatStart354(p)
    \/ \E p \in Threads : StatStart356(p)
    \/ \E p \in Threads : StatStart357(p)
    \/ \E p \in Threads : StatStart358(p)
    \/ \E p \in Threads : StatPause365(p)
    \/ \E p \in Threads : StatPause367(p)
    \/ \E p \in Threads : StatPause368(p)
    \/ \E p \in Threads : StatPause369(p)
    \/ \E p \in Threads : StatResume376(p)
    \/ \E p \in Threads : StatReset388(p)
    \/ \E p \in Threads : StatReset389(p)
    \/ Tick

SpecThreads == InitThreads /\ [][NextThreads]_vars

\* ---------------------------------------------------------- ThresholdDelay
\* The class is not among the source files; its tests are
\* (src/tests/tests.py, lines 82-157).  It is modelled from its contract: a
\* TimeDelay of one shot is its polling clock, whose callback is the tick;
\* start(), pause() and resume() delegate to that timer; reset() resets it and
\* ends the session.  The steps of the timer are the lines of TimeDelay.
\* sstate is done once a reading has satisfied the condition.

\* ThresholdDelay(threshold, mode, interval > 0, callback, read_value).
ConstructThreshold ==
    /\ kind = THRESHOLD
    /\ TimeDelayInit(1..MaxTimeout, {1}, {TRUE})
    /\ NoStatistics
    /\ threshold \in Samples
    /\ mode \in {"above", "below"}
    /\ shotsArg = NotRecorded
    /\ Fresh
    /\ Elsewhere

InitThreshold == ConstructThreshold /\ serial = TRUE

\* The direction condition on a reading.
Crossed(x) ==
    \/ mode = "below" /\ x < threshold
    \/ mode = "above" /\ x > threshold

ThresholdCallStart(c) == Issue(c, "H1") /\ alone' = (nOps = 0) /\ Noted("start")
ThresholdCallReset(c) == Issue(c, "H2") /\ alone' = FALSE /\ Noted("reset")

\* start(): begin polling, unless a reading has ended the session.
ThresholdStart(p) ==
    /\ At(p, "H1")
    /\ IF sstate = DONE THEN Return(p) ELSE Goto(p, "L169")
    /\ UNCHANGED <<cfgVars, statVars, innerVars, now, histVars>>

\* reset(): stop polling and return to the configuration before start().
ThresholdReset(p) ==
    /\ At(p, "H2")
    /\ sstate' = INITIATED
    /\ reads' = <<>>
    /\ sCalls' = 0
    /\ Goto(p, "L206")
    /\ UNCHANGED <<cfgVars, values, started_time, elapsed_time, values_lock,
                   innerVars, now, histVars>>

\* The expiry handler of the polling clock calls the tick.
ThresholdCallback263(p) ==
    /\ At(p, "L263")
    /\ kind = THRESHOLD
    /\ CallAt(p, "H3", <<"L263r">>)
    /\ UNCHANGED <<cfgVars, statVars, innerVars, now, histVars>>

\* A tick: read a value; when it satisfies the condition, invoke the callback
\* and stop polling; otherwise go on to re-arm.
ThresholdTick(p) ==
    /\ At(p, "H3")
    /\ \E x \in Samples :
           /\ reads' = Append(reads, x)
           /\ IF Crossed(x)
              THEN /\ sstate' = DONE
                   /\ sCalls' = sCalls + 1
                   /\ Return(p)
              ELSE /\ Goto(p, "H4")
                   /\ UNCHANGED <<sstate, sCalls>>
    /\ UNCHANGED <<cfgVars, values, started_time, elapsed_time, values_lock,
                   innerVars, now, histVars>>

\* Re-arm for another interval: reset the polling clock and start it.
ThresholdRearm(p) ==
    /\ At(p, "H4")
    /\ CallAt(p, "L206", <<"L169">>)
    /\ UNCHANGED <<cfgVars, statVars, innerVars, now, histVars>>

NextThreshold ==
    \/ \E c \in Callers : ThresholdCallStart(c)
    \/ \E c \in Callers : CallPause(c)
    \/ \E c \in Callers : CallResume(c)
    \/ \E c \in Callers : ThresholdCallReset(c)
    \/ \E p \in Threads : ThresholdStart(p)
    \/ \E p \in Threads : ThresholdReset(p)
    \/ \E p \in Threads : Start169(p)
    \/ \E p \in Threads : Start171(p)
    \/ \E p \in Threads : Start175(p)
    \/ \E p \in Threads : Start178(p)
    \/ \E p \in Threads : Start179(p)
    \/ \E p \in Threads : Start180(p)
    \/ \E p \in Threads : Pause186(p)
    \/ \E p \in Threads : Pause187(p)
    \/ \E p \in Threads : Pause188(p)
    \/ \E p \in Threads : Pause189(p)
    \/ \E p \in Threads : Resume195(p)
    \/ \E p \in Threads : Reset206(p)
    \/ \E p \in Threads : Rearm271(p)
    \/ \E p \in Threads : Rearm272(p)
    \/ \E p \in Threads : Rearm273(p)
    \/ \E p \in Threads : Rearm274(p)
    \/ \E p \in Threads : Rearm275(p)
    \/ \E k \in TimerIds : Fire(k)
    \/ \E p \in Threads : Expiry254(p)
    \/ \E p \in Threads : Expiry255(p)
    \/ \E p \in Threads : Expiry256(p)
    \/ \E p \in Threads : Expiry262(p)
    \/ \E p \in Threads : ThresholdCallback263(p)
    \/ \E p \in Threads : HandlerReturn(p)
    \/ \E p \in Threads : ThresholdTick(p)
    \/ \E p \in Threads : ThresholdRearm(p)
    \/ Tick

\* Serial runs of a ThresholdDelay.
SpecThreshold == InitThreshold /\ [][NextThreshold]_vars

\* ------------------------------------------- my_statistics, used directly
\* No delay is in use: the variables of the delay hold a TimeDelay that
\* nobody calls.
NoDelay ==
    /\ kind = "none"
    /\ TimeDelayInit({1}, {1}, {FALSE})
    /\ NoStatistics
    /\ NoThreshold
    /\ shotsArg = NotRecorded
    /\ Fresh
    /\ serial = TRUE

\* A LimitedList(MaxListLen), still empty, and the arguments of the two
\* functions.
InitMetric ==
    /\ NoDelay
    /\ Imported
    /\ argValues = <<>>
    /\ appended = None
    /\ argMetric \in Metrics
    /\ argComparator \in Comparators
    /\ argReference \in 0..MaxValue
    /\ computed_metric = NoMetric
    /\ trigger = FALSE
    /\ step = "args"

\* values.append(x), lists.py lines 6-10.
AppendCall(x) ==
    /\ step = "args"
    /\ argValues' = LimitedAppend(argValues, x, MaxListLen)
    /\ appended' = x
    /\ UNCHANGED <<argMetric, argComparator, argReference, computed_metric,
                   trigger, step>>

\* compute_metric(values, metric), my_statistics.py lines 14-24.
ComputeMetricCall ==
    /\ step = "args"
    /\ computed_metric' = ComputeMetric(argValues, argMetric)
    /\ step' = "computed"
    /\ UNCHANGED <<argValues, argMetric, argComparator, argReference, appended,
                   trigger>>

\* check_match(computed_metric, comparator, reference_value),
\* my_statistics.py lines 26-44.
CheckMatchCall ==
    /\ step = "computed"
    /\ trigger' = CheckMatch(computed_metric, argComparator, argReference)
    /\ step' = "matched"
    /\ UNCHANGED <<argValues, argMetric, argComparator, argReference, appended,
                   computed_metric>>

\* All the variables of the delay.
delayVars == <<timeout, n_shots, callback, serial, kind, reference_value, metric,
               comparator, scallback, read_value, threshold, mode, shotsArg, statVars, objVars,
               timers, nTimers, now,
               pc, stack, histVars>>

NextMetric ==
    \/ \E x \in 0..MaxValue : AppendCall(x) /\ UNCHANGED <<delayVars, factoryVars>>
    \/ ComputeMetricCall /\ UNCHANGED <<delayVars, factoryVars>>
    \/ CheckMatchCall /\ UNCHANGED <<delayVars, factoryVars>>

SpecMetric == InitMetric /\ [][NextMetric]_vars

\* ------------------------------------------------- DelayFactory, its calls
InitFactory == NoDelay /\ NoMetricCall /\ Imported

\* register_delay(key, delay_class), lines 58-60.
RegisterDelay(k, c) ==
    /\ Len(log) < MaxRegs
    /\ registry' = Store(registry, k, c)
    /\ log' = Append(log, [key |-> k, cls |-> c])
    /\ UNCHANGED <<listing, expected, created>>

\* A create_delay that builds a TimeDelay when the key is not registered.
Create_default(reg, dt, kw, who) ==
    [by |-> who, arg |-> dt, params |-> kw, outcome |-> "instance",
     cls |-> IF HasKey(reg, IF dt.enum THEN DelayTypeValue(dt.v) ELSE dt.v)
             THEN Get(reg, IF dt.enum THEN DelayTypeValue(dt.v) ELSE dt.v)
             ELSE "TimeDelay"]

\* create_delay(delay_type, **kwargs), lines 65-71: the key is the value of
\* an enumerant or the argument itself; ValueError when the dict has no class
\* for it, else an instance of that class built from kwargs.
Create(reg, dt, kw, who) ==
    LET key == IF dt.enum THEN DelayTypeValue(dt.v) ELSE dt.v
        delay_class == Get(reg, key)
    IN  IF delay_class = "None"
        THEN [by |-> who, arg |-> dt, params |-> kw, outcome |-> "ValueError",
              cls |-> "None"]
        ELSE [by |-> who, arg |-> dt, params |-> kw, outcome |-> "instance",
              cls |-> delay_class]

\* A call of create_delay by any caller.
CreateDelay(dt, kw) ==
    /\ created' = Create(registry, dt, kw, "caller")
    /\ UNCHANGED <<registry, log, listing, expected>>

\* src/main.py, lines 135-153: the sweep driver passes the selected kind.
MainCreateDelay(k, kw) ==
    /\ created' = Create(registry, RawKey(k), kw, "main")
    /\ UNCHANGED <<registry, log, listing, expected>>

\* An available_delays that returns the view of the keys, not a copy.
Listing_liveView(reg) ==
    [taken |-> TRUE, live |-> TRUE, items |-> <<>>, edits |-> 0]

\* available_delays(), line 76: list(cls._registry.keys()), a new list.
Listing(reg) ==
    [taken |-> TRUE, live |-> FALSE, items |-> KeysOf(reg), edits |-> 0]

AvailableDelays ==
    /\ listing' = Listing(registry)
    /\ expected' = KeysOf(registry)
    /\ UNCHANGED <<registry, log, created>>

\* What the holder of the returned object reads in it.
Shown == IF listing.live THEN KeysOf(registry) ELSE listing.items

\* The holder of the returned list appends a key to it.  (A view of the keys
\* has no append: the call raises and changes nothing.)
AppendToResult(k) ==
    /\ listing.taken
    /\ listing.edits < MaxEdits
    /\ listing' = IF listing.live THEN [listing EXCEPT !.edits = @ + 1]
                  ELSE [listing EXCEPT !.items = Append(@, k), !.edits = @ + 1]
    /\ expected' = IF listing.live THEN expected ELSE Append(expected, k)
    /\ UNCHANGED <<registry, log, created>>

NextFactory ==
    \/ \E k \in OwnKeys, c \in Classes :
           RegisterDelay(k, c) /\ UNCHANGED <<delayVars, metricVars>>
    \/ \E e \in DelayTypes, kw \in 1..MaxParams :
           CreateDelay(Enumerant(e), kw) /\ UNCHANGED <<delayVars, metricVars>>
    \/ \E k \in Keys, kw \in 1..MaxParams :
           CreateDelay(RawKey(k), kw) /\ UNCHANGED <<delayVars, metricVars>>
    \/ \E k \in MainKinds, kw \in 1..MaxParams :
           MainCreateDelay(k, kw) /\ UNCHANGED <<delayVars, metricVars>>
    \/ AvailableDelays /\ UNCHANGED <<delayVars, metricVars>>
    \/ \E k \in OwnKeys : AppendToResult(k) /\ UNCHANGED <<delayVars, metricVars>>

SpecFactory == InitFactory /\ [][NextFactory]_vars

\* ------------------------------------------------ the sweep driver's loop
\* src/main.py, main_sdm_loop, line 169: delay.start(), then the loop of
\* line 170.
MainStart(c) ==
    /\ CanCall(c)
    /\ nOps = 0
    /\ CallAt(c, "L169", <<"M170">>)
    /\ nOps' = 1
    /\ alone' = TRUE
    /\ Noted("start")
    /\ UNCHANGED <<cfgVars, statVars, objVars, timers, nTimers, now, cbCount, ranInShot, raised>>

\* src/main.py, lines 170-171: `while not delay.is_done(): pass`.
MainSpin(c) ==
    /\ At(c, "M170")
    /\ pc' = [pc EXCEPT ![c] = IF IsDone THEN "M172" ELSE "M170"]
    /\ UNCHANGED <<cfgVars, statVars, objVars, timers, nTimers, now, stack, histVars>>

\* One source line of thread p, in a run of the loop.
LineStep(p) ==
    \/ Start169(p) \/ Start171(p) \/ Start175(p) \/ Start178(p) \/ Start179(p)
    \/ Start180(p) \/ Rearm271(p) \/ Rearm272(p) \/ Rearm273(p) \/ Rearm274(p)
    \/ Rearm275(p) \/ Expiry254(p) \/ Expiry255(p) \/ Expiry256(p)
    \/ Expiry262(p) \/ Expiry263(p) \/ MainSpin(p)

NextRun ==
    \/ \E c \in Callers : MainStart(c)
    \/ \E c \in Callers : MainSpin(c)
    \/ \E p \in Threads : Start169(p)
    \/ \E p \in Threads : Start171(p)
    \/ \E p \in Threads : Start175(p)
    \/ \E p \in Threads : Start178(p)
    \/ \E p \in Threads : Start179(p)
    \/ \E p \in Threads : Start180(p)
    \/ \E p \in Threads : Rearm271(p)
    \/ \E p \in Threads : Rearm272(p)
    \/ \E p \in Threads : Rearm273(p)
    \/ \E p \in Threads : Rearm274(p)
    \/ \E p \in Threads : Rearm275(p)
    \/ \E k \in TimerIds : Fire(k)
    \/ \E p \in Threads : Expiry254(p)
    \/ \E p \in Threads : Expiry255(p)
    \/ \E p \in Threads : Expiry256(p)
    \/ \E p \in Threads : Expiry262(p)
    \/ \E p \in Threads : Expiry263(p)
    \/ Tick

\* Every thread that can run is scheduled in the end, every Timer whose
\* interval has passed wakes up, and the clock goes on.
FairRun ==
    /\ \A p \in Threads : WF_vars(LineStep(p))
    /\ \A k \in TimerIds : WF_vars(Fire(k))
    /\ WF_vars(Tick)

SpecRun == Init /\ [][NextRun]_vars /\ FairRun


\* ================================================================ claims

\* C1: a TimeDelay that is started and then left alone does not invoke the
\* callback at the expiry of a shot other than the last, invokes it exactly
\* once at the expiry of the last shot, and after every other expiry is
\* started with one shot less and an alarm of a full timeout.
C1_CallbackOnlyAfterLastShot ==
    alone =>
        /\ cbCount <= 1
        /\ (cbCount = 1 => remaining_shots = 0)
        /\ (Quiet /\ callback /\ remaining_shots = 0 => cbCount = 1)
        /\ (Quiet /\ nOps = 1 /\ remaining_shots > 0 =>
                /\ state = STARTED
                /\ AlarmPending
                /\ timers[timer].dl = startedTime + timeout
                /\ remaining_shots = n_shots - (nTimers - 1))

\* C2: the completion callback is invoked at most once between two reset()s,
\* under every interleaving of the callers' calls with the expiry handlers.
C2_AtMostOneCallback == cbCount <= 1

\* C3: when pause() races with the expiry handler of the current shot, one of
\* them wins: a paused delay with no shot left is unreachable.
C3_PauseOrExpiry == Quiet => ~(state = PAUSED /\ remaining_shots = 0)

\* C4: remaining_shots stays within 0..n_shots, and is 0 exactly when the state
\* is done.
C4_ShotsInRange ==
    Quiet =>
        /\ 0 <= remaining_shots
        /\ remaining_shots <= n_shots
        /\ (remaining_shots = 0 <=> state = DONE)

\* C5: a TimeDelay that is started by the sweep driver's loop and then left
\* alone gets done, and once it is done and every handler has returned its
\* callback has been invoked exactly once.
C5_DoneOnce == (IsDone /\ Quiet /\ callback) => cbCount = 1

\* C5, the part about termination: under FairRun the delay gets done, the
\* callback is invoked and the loop of main.py line 170 ends.
C5_LoopEnds ==
    (nOps = 1) ~> (IsDone /\ pc[1] = "M172" /\ (callback => cbCount >= 1))

\* C6: after any number of pause()/resume() cycles inside one shot, the alarm
\* is armed for what is left of the shot: it expires when the time spent
\* started in this shot adds up to timeout.
C6_ResumeKeepsShotTime ==
    (Quiet /\ state = STARTED /\ AlarmPending) =>
        timers[timer].dl = startedTime + (timeout - ranInShot)

\* C7: while the delay is paused, elapsed() and remaining() do not change as
\* the clock advances.
C7_PausedFrozen ==
    [][(state = PAUSED /\ state' = PAUSED /\ now' # now) =>
            /\ Remaining(now)' = Remaining(now)
            /\ Elapsed(now)' = Elapsed(now)]_vars
C7_Witness == Quiet /\ state = PAUSED /\ now > pausedTime /\ pausedTime # None

\* C8: elapsed() + remaining() = timeout * n_shots, both read at the same
\* clock instant.
C8_ElapsedPlusRemaining == Elapsed(now) + Remaining(now) = timeout * n_shots
C8_Witness ==
    /\ Quiet /\ state = STARTED /\ now > startedTime
    /\ remaining_shots < n_shots /\ Remaining(now) # timeout * n_shots

\* C9: elapsed() is never negative.
C9_ElapsedNonNegative == Quiet => Elapsed(now) >= 0

\* C10: remaining() is never negative.
C10_RemainingNonNegative == Quiet => Remaining(now) >= 0

\* The label thread p goes on at when the method it is in returns.
ReturnLabel(p) == IF stack[p] = <<>> THEN "idle" ELSE Head(stack[p])

\* Thread p is at the first line of a call the state makes a no-op: pause()
\* when not started, resume() when not paused, start() when started.
NoOpCall(p) ==
    \/ pc[p] = "L186" /\ state # STARTED
    \/ pc[p] = "L195" /\ state # PAUSED
    \/ pc[p] = "L169" /\ state = STARTED

\* C11: pause() when not started, resume() when not paused and start() when
\* started return at once, raise nothing and leave state, remaining_shots,
\* startedTime, pausedTime and the Timers as they were.
C11_NoOpCalls ==
    [][\A p \in Threads :
          (NoOpCall(p) /\ pc'[p] # pc[p]) =>
              /\ pc'[p] = ReturnLabel(p)
              /\ UNCHANGED <<objVars, timers, nTimers, raised>>]_vars
C11_Witness ==
    /\ Quiet /\ raised = {}
    /\ \/ lastOp = "pause" /\ stateAtCall = DONE /\ state = DONE
       \/ lastOp = "resume" /\ stateAtCall = STARTED /\ state = STARTED
       \/ lastOp = "start" /\ stateAtCall = STARTED /\ state = STARTED

\* C12: once reset() has returned and until the next call, the delay is
\* initiated with all its shots, both time stamps cleared, no alarm pending
\* and the callback not invoked, whatever the state reset() was called in.
C12_ResetStops ==
    (lastOp = "reset" /\ Quiet) =>
        /\ state = INITIATED
        /\ remaining_shots = n_shots
        /\ startedTime = None /\ pausedTime = None
        /\ \A k \in TimerIds : timers[k].st # "armed"
        /\ cbCount = 0

\* C13: once reset() has returned, is_done() is False and elapsed() is 0,
\* for a TimeDelay (whose remaining() is then timeout * n_shots) and for a
\* StatisticsDelay, whatever sequence of calls and expiries came before.
C13_ResetRoundTrip ==
    (lastOp = "reset" /\ Quiet) =>
        IF kind = TIME
        THEN ~IsDone /\ Elapsed(now) = 0 /\ Remaining(now) = timeout * n_shots
        ELSE ~StatIsDone /\ StatElapsed = 0
C13_Witness ==
    /\ lastOp = "reset" /\ Quiet /\ now > Epoch
    /\ kind = STATISTICS /\ stateAtCall = DONE

\* C14: start() on a done delay begins a whole new cycle: started with all
\* the shots and a full-timeout alarm, the callback invoked once more, and
\* only when the last of the n_shots further shots has expired.
C14_StartAfterDone ==
    (lastOp = "start" /\ stateAtCall = DONE /\ Quiet) =>
        /\ cbCount <= 1
        /\ (cbCount = 1 => remaining_shots = 0)
        /\ (callback /\ remaining_shots = 0 => cbCount = 1)
        /\ (remaining_shots = 0 => state = DONE)
        /\ (remaining_shots # 0 =>
                /\ state = STARTED
                /\ remaining_shots \in 1..n_shots
                /\ AlarmPending
                /\ timers[timer].dl = startedTime + timeout)

\* C15: at most one alarm is pending and at most one expiry handler is
\* executing at any time, and no alarm is pending while a handler executes.
C15_OneAlarmOneHandler ==
    /\ Cardinality({k \in TimerIds : timers[k].st = "armed"}) <= 1
    /\ Cardinality({k \in TimerIds : timers[k].st = "running"}) <= 1
    /\ ~(\E k, j \in TimerIds : timers[k].st = "armed" /\ timers[j].st = "running")

\* C16: no TimeDelay with timeout <= 0 exists, and none is ever started.
C16_TimeoutPositive == state = STARTED => timeout > 0

\* The last n elements of xs.
LastN(xs, n) == SubSeq(xs, Len(xs) - n + 1, Len(xs))
Min(a, b) == IF a < b THEN a ELSE b

\* C17: the window never holds more than its capacity, and it holds the
\* last min(k, capacity) of the k samples read, in the order they were read.
C17_WindowKeepsLast ==
    (kind = STATISTICS /\ ~values.none) =>
        /\ Len(values.items) <= WindowLength
        /\ values.items = LastN(reads, Min(Len(reads), WindowLength))
C17_Witness ==
    /\ kind = STATISTICS /\ Len(reads) > WindowLength
    /\ \E p \in Threads : pc[p] = "T434"

\* C18: when a tick has found the trigger condition satisfied and has
\* completed, the window is empty.
C18_ClearedOnTrigger ==
    (kind = STATISTICS /\ Quiet /\ sstate = DONE) => Len(values.items) = 0

\* C19: a tick that finds the trigger condition satisfied makes the delay
\* done and invokes the callback once; from then on no alarm is pending, no
\* sample is read (the window is still the one that triggered) and the
\* callback is not invoked again.
C19_TriggerStops ==
    kind = STATISTICS =>
        /\ sCalls <= 1
        /\ (Quiet /\ sstate = DONE) =>
               /\ \A k \in TimerIds : timers[k].st \notin {"armed", "running"}
               /\ sCalls = (IF scallback THEN 1 ELSE 0)
               /\ Trigger(values.items)
        /\ (Quiet /\ reads # <<>> /\ Trigger(values.items)) => sstate = DONE
C19_Witness ==
    /\ kind = STATISTICS /\ Quiet /\ sstate = DONE /\ sCalls = 1
    /\ lastOp = "start" /\ stateAtCall = DONE /\ Len(reads) > 1

\* C20: a tick that finds the trigger condition not satisfied invokes no
\* callback, sets the state to continue and arms exactly one alarm of a full
\* timer_interval; the delay is started again, and it stays so, sampling,
\* while the condition does not hold.
C20_ContinueRearms ==
    kind = STATISTICS =>
        /\ \A p \in Threads : pc[p] = "T434" => (sstate = CONTINUE /\ sCalls = 0)
        /\ (Quiet /\ sstate = STARTED) =>
               /\ AlarmPending
               /\ Cardinality({k \in TimerIds : timers[k].st = "armed"}) = 1
               /\ sCalls = 0
               /\ ~Trigger(values.items)
               /\ pausedTime = None =>
                      /\ timers[timer].iv = timeout
                      /\ timers[timer].dl = startedTime + timeout
C20_Witness ==
    /\ kind = STATISTICS /\ Quiet /\ sstate = STARTED /\ alone
    /\ Len(reads) > 1 /\ pausedTime = None

\* The window at tick j: the last min(j, capacity) of the first j samples read.
WindowAt(j) == LastN(SubSeq(reads, 1, j), Min(j, WindowLength))

\* The comparison of the number a / b (b positive) with the reference value:
\* strict for greater-than and less-than, exact for equal-to.
Compares(a, b) ==
    \/ comparator = GREATER_THAN /\ a > reference_value * b
    \/ comparator = LESS_THAN /\ a < reference_value * b
    \/ comparator = EQUAL_TO /\ a = reference_value * b

\* The square root of a / b (a >= 0, b positive) compared with the reference
\* value, which is not negative.
ComparesRoot(a, b) ==
    \/ comparator = GREATER_THAN /\ a > reference_value * reference_value * b
    \/ comparator = LESS_THAN /\ a < reference_value * reference_value * b
    \/ comparator = EQUAL_TO /\ a = reference_value * reference_value * b

\* comparator(metric(xs), reference_value) for a window xs that is not empty:
\* the last value, the arithmetic mean, or the sample standard deviation
\* (0 on fewer than 2 samples).
Satisfied(xs) ==
    IF metric = LAST_VALUE THEN Compares(xs[Len(xs)], 1)
    ELSE IF metric = MEAN THEN Compares(Sum(xs), Len(xs))
    ELSE IF Len(xs) < 2 THEN Compares(0, 1)
    ELSE ComparesRoot(Len(xs) * SumSq(xs) - Sum(xs) * Sum(xs),
                      Len(xs) * (Len(xs) - 1))

\* C21: the delay triggers at exactly the first tick k at which the comparison
\* of the metric of the window after appending sample k with the reference
\* value holds: a tick takes the trigger branch iff its window satisfies the
\* comparison, no earlier window of the session did, and the delay is done
\* iff the last window read satisfies it.
C21_FirstTrigger ==
    (kind = STATISTICS /\ ~values.none) =>
        /\ \A j \in 1..(Len(reads) - 1) : ~Satisfied(WindowAt(j))
        /\ \A p \in Threads :
               /\ pc[p] = "T430" => Satisfied(WindowAt(Len(reads)))
               /\ pc[p] = "T433" => ~Satisfied(WindowAt(Len(reads)))
        /\ Quiet => (sstate = DONE <=>
                        (reads # <<>> /\ Satisfied(WindowAt(Len(reads)))))
\* Mean greater than the reference: the first sample equals the reference (no
\* trigger), a later one lifts the mean above it.
C21_Witness ==
    /\ kind = STATISTICS /\ Quiet /\ sstate = DONE
    /\ metric = MEAN /\ comparator = GREATER_THAN
    /\ Len(reads) > 1 /\ reads[1] = reference_value

\* compute_metric has returned.
Computed == step \in {"computed", "matched"}

\* C22 as stated: the standard deviation of every window of fewer than 2
\* samples, the empty one included, is 0.0; the last value is the sample
\* appended last; the empty window yields no metric and no trigger.
C22_StdDevBelowTwo ==
    /\ (Computed /\ argMetric = ST_DEV /\ Len(argValues) < 2) =>
           computed_metric = Ratio(0, 1, FALSE)
    /\ (Computed /\ argMetric = LAST_VALUE /\ argValues # <<>>) =>
           computed_metric = Ratio(appended, 1, FALSE)
    /\ (Computed /\ argValues = <<>>) => computed_metric.none
    /\ (step = "matched" /\ argValues = <<>>) => ~trigger

\* C22, amended: the standard deviation of a window of exactly one sample is
\* 0.0 (a number: no error); the last value is the sample appended last; the
\* empty window yields no metric, whatever the metric, and check_match then
\* does not trigger, whatever the comparator and the reference.
C22_MetricEdgeCases ==
    /\ (Computed /\ argMetric = ST_DEV /\ Len(argValues) = 1) =>
           computed_metric = Ratio(0, 1, FALSE)
    /\ (Computed /\ argMetric = LAST_VALUE /\ argValues # <<>>) =>
           computed_metric = Ratio(appended, 1, FALSE)
    /\ (Computed /\ argValues = <<>>) => computed_metric.none
    /\ (step = "matched" /\ argValues = <<>>) => ~trigger
C22_Witness ==
    /\ step = "matched" /\ argMetric = ST_DEV /\ Len(argValues) = 1
    /\ appended > 0 /\ argComparator = EQUAL_TO /\ argReference = 0 /\ trigger

\* C23: pause() followed by resume() or start() leaves the window as it was.
\* Step by step: the window changes only when start() allocates it, empty,
\* from initiated, when a tick of the started delay appends the sample it
\* read, or when reset() drops it; while the delay is paused no sample is
\* read, no callback is invoked and no alarm is pending, so the next tick
\* after resume() appends to the window the pause found.
C23_PauseKeepsWindow ==
    [][kind = STATISTICS =>
         /\ values' # values =>
                \/ \E p \in Threads :
                       /\ pc[p] = "S352" /\ sstate = INITIATED
                       /\ values' = [none |-> FALSE, items |-> <<>>]
                \/ \E p \in Threads :
                       /\ pc[p] = "T423" /\ sstate = STARTED
                       /\ Len(reads') = Len(reads) + 1
                \/ \E p \in Threads : pc[p] = "S389" /\ values' = NoValues
         /\ (sstate = PAUSED /\ sstate' # INITIATED) =>
                (values' = values /\ reads' = reads /\ sCalls' = sCalls)
         /\ (sstate = PAUSED /\ Quiet) =>
                \A k \in TimerIds : timers[k].st \notin {"armed", "running"}
      ]_vars
\* A tick after pause() and resume() works on a window of two samples.
C23_Witness ==
    /\ kind = STATISTICS /\ lastOp = "resume" /\ stateAtCall = PAUSED
    /\ Len(values.items) > 1 /\ values.items = reads
    /\ \E p \in Threads : pc[p] \in {"T430", "T433"}

\* C24: elapsed() is the clock time the delay has spent started since start()
\* took it from initiated: every started segment counts, the current one and
\* those before each tick included, and no paused interval does.
C24_ElapsedIsStartedTime ==
    (kind = STATISTICS /\ Quiet) => StatElapsed = startedFor

\* read_value has raised in the session that began when the window was
\* allocated.
ReadFailed == \E i \in 1..Len(reads) : reads[i] = None

\* C25: when read_value raises during a tick, the exception leaves the tick
\* handler (the Timer's thread ends with it), nothing is appended to the
\* window, the callback is not invoked, the lock on the window is free, and
\* no alarm is armed nor any tick run again, whatever the callers call, short
\* of a reset: the failed read is the last read of the session.
C25_ReadFailureStops ==
    (kind = STATISTICS /\ ReadFailed) =>
        /\ "ReadError" \in raised
        /\ \A i \in 1..(Len(reads) - 1) : reads[i] # None
        /\ values.items = LastN(SubSeq(reads, 1, Len(reads) - 1),
                                Min(Len(reads) - 1, WindowLength))
        /\ sCalls = 0
        /\ values_lock = 0
        /\ sstate # DONE
        /\ \A k \in TimerIds : timers[k].st \notin {"armed", "running"}
\* The second read of a session raised, and the caller has called resume()
\* or start() since.
C25_Witness ==
    /\ kind = STATISTICS /\ ReadFailed /\ Quiet /\ Len(reads) = 2
    /\ lastOp \in {"start", "resume"} /\ nOps > 1

KeyOf(dt) == IF dt.enum THEN DelayTypeValue(dt.v) ELSE dt.v

\* C27: create_delay never changes the registry; when the key of its argument
\* is not registered at the time of the call it fails with ValueError and
\* builds nothing; when it is, it returns an instance of the class registered
\* under the key, built from the parameters it was given.
C27_CreateDelay ==
    [][created' # created =>
         /\ registry' = registry
         /\ ~HasKey(registry, KeyOf(created'.arg)) =>
                (created'.outcome = "ValueError" /\ created'.cls = "None")
         /\ HasKey(registry, KeyOf(created'.arg)) =>
                /\ created'.outcome = "instance"
                /\ \E i \in 1..Len(registry) :
                       /\ registry[i].key = KeyOf(created'.arg)
                       /\ registry[i].cls = created'.cls
      ]_vars
\* A key that nobody has registered, after other registrations.
C27_Witness ==
    /\ created.outcome = "ValueError" /\ created.arg = RawKey("custom")
    /\ created.by = "caller" /\ log # <<>>

\* The class of the last registration of key k in the sequence regs, "None"
\* when there is none.
RECURSIVE LastRegistered(_, _)
LastRegistered(regs, k) ==
    IF regs = <<>> THEN "None"
    ELSE IF regs[Len(regs)].key = k THEN regs[Len(regs)].cls
    ELSE LastRegistered(SubSeq(regs, 1, Len(regs) - 1), k)

\* C28: after any sequence of register_delay calls the registry maps every
\* key to the class of the last registration for that key (those of the
\* import first), every other key is as it was, and registering a pair again
\* yields the same registry as registering it once.
C28_LastRegistrationWins ==
    /\ \A k \in Keys : Get(registry, k) = LastRegistered(BuiltIns \o log, k)
    /\ \A i, j \in 1..Len(registry) : registry[i].key = registry[j].key => i = j
    /\ \A k \in OwnKeys, c \in Classes :
           Store(Store(registry, k, c), k, c) = Store(registry, k, c)
\* A key registered twice, with two classes.
C28_Witness ==
    /\ Len(log) = 2 /\ log[1].key = log[2].key /\ log[1].cls # log[2].cls

\* C29: with the registrations of the import only, create_delay given an
\* enumerant of DelayType and create_delay given its value build the same
\* class (TimeDelay for TIME, StatisticsDelay for STATISTICS), and the kinds
\* the sweep driver passes are registered: its create_delay builds a delay.
C29_KindsResolve ==
    (log = <<>> /\ created.by # "none") =>
        /\ (created.arg.enum \/ created.arg.v \in {"TimeDelay", "StatisticsDelay"}) =>
               /\ created.outcome = "instance"
               /\ created.cls = KeyOf(created.arg)
        /\ created.by = "main" => created.outcome = "instance"

\* C30: what available_delays() returned shows the keys registered when it
\* was called, with the changes its holder has made to it since, whatever has
\* been registered since; and a change the holder makes to it leaves the
\* registry as it is.
C30_Snapshot ==
    [][/\ listing'.taken => Shown' = expected'
       /\ listing'.edits > listing.edits => registry' = registry
      ]_vars
\* The holder has appended a key to the list, and a key has been registered
\* after the list was returned.
C30_Witness ==
    /\ listing.taken /\ listing.edits > 0
    /\ Len(listing.items) = Len(BuiltIns) + 1
    /\ Len(registry) > Len(BuiltIns)
    /\ KeysOf(registry) # listing.items

\* C31: until the first call, a TimeDelay built with a positive timeout is
\* initiated, its n_shots is the argument when that is at least 1 and 1 when
\* it is 0, None or negative, remaining_shots = n_shots, remaining() is
\* timeout * n_shots and elapsed() is 0, whatever the clock shows.
C31_AfterConstruction ==
    (shotsArg.given /\ nOps = 0) =>
        /\ state = INITIATED
        /\ n_shots >= 1
        /\ n_shots = (IF shotsArg.v >= 1 THEN shotsArg.v ELSE 1)
        /\ remaining_shots = n_shots
        /\ Remaining(now) = timeout * n_shots
        /\ Elapsed(now) = 0
\* Built with a negative n_shots and read after the clock has advanced, and
\* built with 0 (or None).
C31_Witness ==
    /\ shotsArg.given /\ nOps = 0 /\ shotsArg.v <= 0 /\ n_shots = 1
    /\ now > Epoch /\ timeout = MaxTimeout

\* C32: while a TimeDelay is started and no shot expires, remaining()
\* decreases and elapsed() increases by exactly what the clock advances, also
\* after pause() and resume(); and remaining() read after a resume is the time
\* left until done: what is left of the running shot and the shots after it.
C32_RemainingTracksClock ==
    [][/\ (state = STARTED /\ state' = STARTED /\ Quiet /\ AlarmPending
             /\ now' # now) =>
              /\ Remaining(now)' = Remaining(now) - (now' - now)
              /\ Elapsed(now)' = Elapsed(now) + (now' - now)
       /\ (Quiet' /\ state' = STARTED /\ AlarmPending' /\ lastOp' = "resume"
             /\ stateAtCall' = PAUSED) =>
              Remaining(now)' = (timers[timer].dl - now)'
                                  + timeout * (remaining_shots' - 1)
      ]_vars

\* C33: the first tick of a session compares the metric of its one sample
\* with the reference value and takes the trigger branch iff the comparison
\* holds; with the standard deviation, less-than and a positive reference
\* value it triggers whatever the sample is, and the delay is done.
C33_NoMinimumSamples ==
    (kind = STATISTICS /\ Len(reads) = 1) =>
        /\ \A p \in Threads :
               pc[p] \in {"T430", "T433"} =>
                   /\ pc[p] = "T430" <=> Satisfied(<<reads[1]>>)
                   /\ (metric = ST_DEV /\ comparator = LESS_THAN
                         /\ reference_value > 0) => pc[p] = "T430"
        /\ (Quiet /\ metric = ST_DEV /\ comparator = LESS_THAN
              /\ reference_value > 0) => sstate = DONE
        /\ (Quiet /\ metric = MEAN /\ Compares(reads[1], 1)) => sstate = DONE
\* Done on the first tick by the standard deviation of one sample, the
\* largest that can be read.
C33_Witness ==
    /\ kind = STATISTICS /\ Quiet /\ sstate = DONE /\ Len(reads) = 1
    /\ metric = ST_DEV /\ comparator = LESS_THAN /\ reference_value > 0
    /\ reads[1] = MaxSample /\ sCalls = 1

\* No caller is inside a call.
CallersIdle == \A c \in Callers : pc[c] = "idle"

\* C34: whenever a StatisticsDelay is started and no call of start(), pause()
\* or resume() is in progress, an alarm of its timer is pending or a tick
\* handler is executing, however the calls and the tick handlers interleave.
C34_StartedMeansArmed ==
    (kind = STATISTICS /\ ~wasReset /\ sstate = STARTED /\ CallersIdle) =>
        \E k \in TimerIds : timers[k].st \in {"armed", "running"}

\* C35: once pause() has returned on a StatisticsDelay that was started when
\* it was called, and until the next call, the delay is paused (or done, when
\* a tick that was in progress has triggered), no alarm is pending and no
\* sample is read, also when the call overlapped a tick handler.
C35_PauseHolds ==
    [][(kind' = STATISTICS /\ lastOp' = "pause" /\ stateAtCall' = STARTED
          /\ CallersIdle') =>
             /\ sstate' \in {PAUSED, DONE}
             /\ \A k \in TimerIds : timers'[k].st # "armed"
             /\ CallersIdle => reads' = reads
      ]_vars

\* C36: once reset() has returned on a StatisticsDelay, and until the next
\* call, the delay is initiated, no alarm is pending, no sample is read and
\* the callback is not invoked, also when the call overlapped a tick handler.
C36_ResetHolds ==
    [][(kind' = STATISTICS /\ lastOp' = "reset" /\ CallersIdle') =>
             /\ sstate' = INITIATED
             /\ \A k \in TimerIds : timers'[k].st # "armed"
             /\ sCalls' = 0
             /\ CallersIdle => reads' = reads
      ]_vars

\* C37: start() on a StatisticsDelay that is done or started returns at line
\* 348: the state stays as it was (is_done() stays True when done), no alarm
\* is armed, no sample is read, the callback is not invoked and nothing is
\* raised.
C37_StartIsNoOp ==
    [][\A p \in Threads :
          (kind = STATISTICS /\ pc[p] = "S348" /\ sstate \in {DONE, STARTED}
             /\ pc'[p] # pc[p]) =>
              /\ pc'[p] = ReturnLabel(p)
              /\ UNCHANGED <<statVars, innerVars, raised>>
              /\ (sstate = DONE) => (sstate' = DONE)
      ]_vars
\* start() has returned on a delay that was done by a tick of two samples or
\* more, the callback invoked once: it is still done, nothing armed.
C37_Witness ==
    /\ kind = STATISTICS /\ Quiet /\ raised = {}
    /\ lastOp = "start" /\ stateAtCall = DONE /\ sstate = DONE
    /\ nOps >= 2 /\ sCalls = 1 /\ ~AlarmPending

\* Thread p is executing _timer_task, the tick handler of a StatisticsDelay,
\* or a method it has called.
InTimerTask(p) == \E i \in DOMAIN stack[p] : stack[p][i] = "L263r"

\* C38: while the callback of a TimeDelay is executing (line 263) the
\* TimeDelay is done; while the callback of a StatisticsDelay is executing
\* (line 431) the StatisticsDelay is done; and the inner TimeDelay of a
\* StatisticsDelay is done all along each execution of the tick handler.
C38_DoneBeforeCallback ==
    \A p \in Threads :
        /\ pc[p] = "L263" => state = DONE
        /\ pc[p] = "T431" => sstate = DONE
        /\ InTimerTask(p) => state = DONE

\* C39: the window of a StatisticsDelay changes (allocation, replacement,
\* append with eviction, clear) only by a step of the tick handler that holds
\* the values lock; the metric is computed from the window by a thread that
\* holds the lock; and the lock a thread holds is not replaced or released
\* by a step of another thread.
C39_WindowUnderLock ==
    [][/\ values' # values =>
              \E p \in Threads :
                  InTimerTask(p) /\ values_lock = p /\ pc'[p] # pc[p]
       /\ \A p \in Threads :
              (pc[p] = "T424" /\ pc'[p] # pc[p]) => values_lock = p
       /\ \A p \in Threads :
              (values_lock = p /\ values_lock' # p) => pc'[p] # pc[p]
      ]_vars

====
